---- MODULE Spec2Model ----
(***************************************************************************)
(* Model of the ClickHouse "dbops" Terraform provider: the SQL builders of *)
(* internal/querybuilder, the dbops client functions that run them against *)
(* ClickHouse, and the resource handlers of the user and the               *)
(* settings_profile_association resources.                                 *)
(*                                                                         *)
(* A statement is the builder's token slice (strings.Join(tokens, " ")     *)
(* plus ";" is implied by the sequence).  A token is a record [q, s]: q    *)
(* tells how s is quoted.                                                   *)
(***************************************************************************)
EXTENDS Integers, Sequences, FiniteSets, TLC

VARIABLES
    db,          \* ClickHouse: users, settings profiles, roles
    linked,      \* which of the duplicated definitions the build links
    state,       \* Terraform state of the clickhousedbops_user resource
    assoc,       \* Terraform state of the settings_profile_association resource
    last,        \* outcome of the last handler or client call
    run          \* the dbops calls in flight: position and locals of each

vars == <<db, linked, state, assoc, last, run>>

-----------------------------------------------------------------------------
(* Values *)

NULL == "<null>"          \* types.StringNull(), a nil *string, a nil *User
UNKNOWN == "<unknown>"    \* types.StringUnknown()
Absent == [absent |-> TRUE]

UserNames == {"john", "jane"}
UserUUIDs == {"uuid-1", "uuid-2"}
ProfileNames == {"p1", "p2"}
ProfileIds == {"sp-1", "sp-2"}
RoleNames == {"r1"}
RoleIds == {"rid-1"}
ClusterNames == {"c1"}
CertCNs == {"cn1"}
Hashes == {"h1"}
MaxRows == 2              \* rows of system.settings_profile_elements per user or role
Versions == {"1"}         \* password_sha256_hash_wo_version values

Set(s) == {s[i] : i \in DOMAIN s}

-----------------------------------------------------------------------------
(* Tokens of a statement *)

W(s) == [q |-> "", s |-> s]
backtick(s) == [q |-> "backtick", s |-> s]
quote(s) == [q |-> "quote", s |-> s]
Words(ws) == [i \in DOMAIN ws |-> W(ws[i])]

\* index of the first occurrence of the two-word clause head, 0 when absent
ClauseAt(tokens, w1, w2) ==
    LET First(hits) == IF hits = {} THEN 0 ELSE CHOOSE i \in hits : \A j \in hits : i <= j
    IN  First({i \in 1..(Len(tokens) - 1) : tokens[i] = W(w1) /\ tokens[i + 1] = W(w2)})

\* the operand that follows a two-word clause head, NULL when the clause is absent
ClauseArg(tokens, w1, w2) ==
    LET Operand(i) == IF i = 0 \/ i + 2 > Len(tokens) THEN NULL ELSE tokens[i + 2].s
    IN  Operand(ClauseAt(tokens, w1, w2))

\* index of the object name: the first backtick-quoted token
NameAt(tokens) ==
    LET First(hits) == IF hits = {} THEN 0 ELSE CHOOSE i \in hits : \A j \in hits : i <= j
    IN  First({i \in DOMAIN tokens : tokens[i].q = "backtick"})

\* types.String.ValueString(): "" for null and unknown
ValueString(v) == IF v \in {NULL, UNKNOWN} THEN "" ELSE v
\* types.String.ValueStringPointer(): nil for null
ValueStringPointer(v) == IF v = NULL THEN NULL ELSE ValueString(v)
IsSet(v) == v # NULL /\ v # UNKNOWN

-----------------------------------------------------------------------------
(* internal/querybuilder: CREATE USER *)

NewCreateUser(resourceName) ==
    [resourceName |-> resourceName, identified |-> <<>>, defaultRole |-> NULL,
     settingsProfile |-> NULL, clusterName |-> NULL]

Identified(q, with, by) ==
    [q EXCEPT !.identified = Words(<<"IDENTIFIED", "WITH", with, "BY">>) \o <<quote(by)>>]

IdentifiedWithSSLCertCN(q, cn) ==
    [q EXCEPT !.identified =
        Words(<<"IDENTIFIED", "WITH", "ssl_certificate", "CN">>) \o <<quote(cn)>>]

WithDefaultRole(q, roleName) == [q EXCEPT !.defaultRole = roleName]

WithSettingsProfile(q, profileName) == [q EXCEPT !.settingsProfile = profileName]

\* the three builders keep the cluster in a field of the same name
WithCluster(q, clusterName) == [q EXCEPT !.clusterName = clusterName]

IdentificationSHA256Hash == "sha256_hash"

BuildOk(tokens) == [err |-> FALSE, tokens |-> tokens]
BuildErr == [err |-> TRUE, tokens |-> <<>>]

\* a Build that writes DEFAULT ROLE before SETTINGS PROFILE
CreateUserBuildRoleFirst(q) ==
    IF q.resourceName = "" THEN BuildErr
    ELSE BuildOk(
        Words(<<"CREATE", "USER", "IF", "NOT", "EXISTS">>) \o <<backtick(q.resourceName)>>
        \o (IF q.clusterName # NULL
            THEN Words(<<"ON", "CLUSTER">>) \o <<quote(q.clusterName)>> ELSE <<>>)
        \o q.identified
        \o (IF q.defaultRole # NULL
            THEN Words(<<"DEFAULT", "ROLE">>) \o <<quote(q.defaultRole)>> ELSE <<>>)
        \o (IF q.settingsProfile # NULL
            THEN Words(<<"SETTINGS", "PROFILE">>) \o <<quote(q.settingsProfile)>> ELSE <<>>))

CreateUserBuild(q) ==
    IF q.resourceName = "" THEN BuildErr
    ELSE BuildOk(
        Words(<<"CREATE", "USER", "IF", "NOT", "EXISTS">>) \o <<backtick(q.resourceName)>>
        \o (IF q.clusterName # NULL
            THEN Words(<<"ON", "CLUSTER">>) \o <<quote(q.clusterName)>> ELSE <<>>)
        \o q.identified
        \o (IF q.settingsProfile # NULL
            THEN Words(<<"SETTINGS", "PROFILE">>) \o <<quote(q.settingsProfile)>> ELSE <<>>)
        \o (IF q.defaultRole # NULL
            THEN Words(<<"DEFAULT", "ROLE">>) \o <<quote(q.defaultRole)>> ELSE <<>>))

-----------------------------------------------------------------------------
(* internal/querybuilder: ALTER USER and ALTER ROLE *)

NewAlter(resourceName) ==
    [resourceName |-> resourceName, oldSettingsProfile |-> NULL,
     newSettingsProfile |-> NULL, newName |-> NULL, clusterName |-> NULL,
     setSettingsProfile |-> NULL, ifExists |-> FALSE]

NewAlterUser(resourceName) == NewAlter(resourceName)
NewAlterRole(resourceName) == NewAlter(resourceName)

IfExists(q) == [q EXCEPT !.ifExists = TRUE]
SetSettingsProfile(q, profileName) == [q EXCEPT !.setSettingsProfile = profileName]
RenameTo(q, newName) == [q EXCEPT !.newName = newName]
DropSettingsProfile(q, profileName) == [q EXCEPT !.oldSettingsProfile = profileName]
AddSettingsProfile(q, profileName) == [q EXCEPT !.newSettingsProfile = profileName]

\* part_007: newName, oldSettingsProfile and newSettingsProfile are stored by the
\* setters and never read by Build; only SETTINGS PROFILE counts as a change
AlterUserBuild(q) ==
    IF q.resourceName = "" THEN BuildErr
    ELSE IF q.setSettingsProfile = NULL THEN BuildErr   \* "no change to be made"
    ELSE BuildOk(
        Words(<<"ALTER", "USER">>)
        \o (IF q.ifExists THEN Words(<<"IF", "EXISTS">>) ELSE <<>>)
        \o <<backtick(q.resourceName)>>
        \o (IF q.clusterName # NULL
            THEN Words(<<"ON", "CLUSTER">>) \o <<quote(q.clusterName)>> ELSE <<>>)
        \o Words(<<"SETTINGS", "PROFILE">>) \o <<backtick(q.setSettingsProfile)>>)

\* alterrole.go, first definition of Build: the same legacy shape for roles
AlterRoleBuild1(q) ==
    IF q.resourceName = "" THEN BuildErr
    ELSE IF q.setSettingsProfile = NULL THEN BuildErr   \* "no change to be made"
    ELSE BuildOk(
        Words(<<"ALTER", "ROLE">>)
        \o (IF q.ifExists THEN Words(<<"IF", "EXISTS">>) ELSE <<>>)
        \o <<backtick(q.resourceName)>>
        \o (IF q.clusterName # NULL
            THEN Words(<<"ON", "CLUSTER">>) \o <<quote(q.clusterName)>> ELSE <<>>)
        \o Words(<<"SETTINGS", "PROFILE">>) \o <<backtick(q.setSettingsProfile)>>)

\* alterrole.go, second definition of Build
AlterRoleBuild2(q) ==
    LET rename == q.newName # NULL /\ q.newName # q.resourceName
        drop == q.oldSettingsProfile # NULL
                /\ (q.newSettingsProfile = NULL \/ q.oldSettingsProfile # q.newSettingsProfile)
        add == q.newSettingsProfile # NULL
               /\ (q.oldSettingsProfile = NULL \/ q.newSettingsProfile # q.oldSettingsProfile)
    IN  IF q.resourceName = "" THEN BuildErr
        ELSE IF ~(rename \/ drop \/ add) THEN BuildErr   \* "no change to be made"
        ELSE BuildOk(
            Words(<<"ALTER", "ROLE">>)
            \o (IF q.ifExists THEN Words(<<"IF", "EXISTS">>) ELSE <<>>)
            \o <<backtick(q.resourceName)>>
            \o (IF rename THEN Words(<<"RENAME", "TO">>) \o <<backtick(q.newName)>> ELSE <<>>)
            \o (IF q.clusterName # NULL
                THEN Words(<<"ON", "CLUSTER">>) \o <<quote(q.clusterName)>> ELSE <<>>)
            \o (IF drop THEN Words(<<"DROP", "PROFILES">>) \o <<quote(q.oldSettingsProfile)>>
                ELSE <<>>)
            \o (IF add THEN Words(<<"ADD", "PROFILE">>) \o <<quote(q.newSettingsProfile)>>
                ELSE <<>>))

\* alterrole.go holds two definitions of alterRoleQueryBuilder.Build; def says
\* which of them the build links
AlterRoleBuild(q, def) == IF def = 1 THEN AlterRoleBuild1(q) ELSE AlterRoleBuild2(q)

\* builders whose files are not part of the sources
DropUserBuild(name, clusterName) ==
    BuildOk(Words(<<"DROP", "USER">>) \o <<backtick(name)>>
        \o (IF clusterName # NULL
            THEN Words(<<"ON", "CLUSTER">>) \o <<quote(clusterName)>> ELSE <<>>))

DropSettingsProfileBuild(name, clusterName) ==
    BuildOk(Words(<<"DROP", "SETTINGS", "PROFILE">>) \o <<backtick(name)>>
        \o (IF clusterName # NULL
            THEN Words(<<"ON", "CLUSTER">>) \o <<quote(clusterName)>> ELSE <<>>))

-----------------------------------------------------------------------------
(* ClickHouse, as far as the provider observes it.                          *)
(*   db.users[name]    Absent or [id, rows]: the row of system.users and    *)
(*                     the inherit_profile column of the user's rows in     *)
(*                     system.settings_profile_elements (NULL for a row     *)
(*                     that sets a plain setting)                           *)
(*   db.profiles[id]   NULL or the name of the settings profile              *)
(*   db.roles[id]      Absent or [name, rows]                                *)

Rows == UNION {[1..n -> ProfileNames \cup {NULL}] : n \in 0..MaxRows}

UserByName(d, name) == IF name \in UserNames THEN d.users[name] ELSE Absent
UserExists(d, name) == UserByName(d, name) # Absent
NameOfUUID(d, uuid) ==
    LET Pick(ns) == IF ns = {} THEN "" ELSE CHOOSE n \in ns : TRUE
    IN  Pick({n \in UserNames : d.users[n] # Absent /\ d.users[n].id = uuid})

FreshUUID(d) ==
    CHOOSE u \in UserUUIDs : \A n \in UserNames : d.users[n] = Absent \/ d.users[n].id # u

ProfileName(d, id) == IF id \in ProfileIds THEN d.profiles[id] ELSE NULL
ProfileIdOf(d, name) ==
    LET Pick(ids) == IF name = NULL \/ ids = {} THEN "" ELSE CHOOSE i \in ids : TRUE
    IN  Pick({i \in ProfileIds : d.profiles[i] = name})

ProfileExists(d, name) == ProfileIdOf(d, name) # ""
RoleById(d, id) == IF id \in RoleIds THEN d.roles[id] ELSE Absent
RoleIdOf(d, name) ==
    LET Pick(ids) == IF ids = {} THEN "" ELSE CHOOSE i \in ids : TRUE
    IN  Pick({i \in RoleIds : d.roles[i] # Absent /\ d.roles[i].name = name})

NonNull(rows) == SelectSeq(rows, LAMBDA r : r # NULL)
Without(rows, p) == SelectSeq(rows, LAMBDA r : r # p)

ExecOk(d) == [err |-> FALSE, db |-> d]
ExecErr(d) == [err |-> TRUE, db |-> d]

ExecCreateUser(d, tokens) ==
    LET Run(name, sp) ==
            IF name \notin UserNames THEN ExecErr(d)
            ELSE IF d.users[name] # Absent THEN ExecOk(d)          \* IF NOT EXISTS
            ELSE IF sp # NULL /\ ~ProfileExists(d, sp) THEN ExecErr(d)
            ELSE ExecOk([d EXCEPT !.users[name] =
                    [id |-> FreshUUID(d), rows |-> IF sp = NULL THEN <<>> ELSE <<sp>>]])
    IN  Run(tokens[NameAt(tokens)].s, ClauseArg(tokens, "SETTINGS", "PROFILE"))

ExecAlterUser(d, tokens) ==
    LET Run(name, sp) ==
            IF ~UserExists(d, name)
            THEN (IF ClauseAt(tokens, "IF", "EXISTS") # 0 THEN ExecOk(d) ELSE ExecErr(d))
            ELSE IF sp = NULL THEN ExecErr(d)
            ELSE IF ~ProfileExists(d, sp) THEN ExecErr(d)
            ELSE ExecOk([d EXCEPT !.users[name].rows = <<sp>>])
    IN  Run(tokens[NameAt(tokens)].s, ClauseArg(tokens, "SETTINGS", "PROFILE"))

ExecAlterRole(d, tokens) ==
    LET Renamed(r, to) == IF to = NULL THEN r ELSE [r EXCEPT !.name = to]
        Set1(r, sp) == IF sp = NULL THEN r ELSE [r EXCEPT !.rows = <<sp>>]
        Dropped(r, drop) ==
            IF drop = NULL THEN r ELSE [r EXCEPT !.rows = Without(r.rows, drop)]
        Added(r, add) ==
            IF add = NULL \/ add \in Set(r.rows) THEN r
            ELSE [r EXCEPT !.rows = Append(r.rows, add)]
        Run(id, sp, drop, add, to) ==
            IF id = ""
            THEN (IF ClauseAt(tokens, "IF", "EXISTS") # 0 THEN ExecOk(d) ELSE ExecErr(d))
            ELSE IF to # NULL /\ to \notin RoleNames THEN ExecErr(d)
            ELSE IF sp # NULL /\ ~ProfileExists(d, sp) THEN ExecErr(d)
            ELSE IF add # NULL /\ ~ProfileExists(d, add) THEN ExecErr(d)
            ELSE ExecOk([d EXCEPT !.roles[id] =
                    Added(Dropped(Set1(Renamed(d.roles[id], to), sp), drop), add)])
    IN  Run(RoleIdOf(d, tokens[NameAt(tokens)].s),
            ClauseArg(tokens, "SETTINGS", "PROFILE"),
            ClauseArg(tokens, "DROP", "PROFILES"),
            ClauseArg(tokens, "ADD", "PROFILE"),
            ClauseArg(tokens, "RENAME", "TO"))

ExecDropUser(d, tokens) ==
    LET Run(name) ==
            IF ~UserExists(d, name) THEN ExecErr(d)
            ELSE ExecOk([d EXCEPT !.users[name] = Absent])
    IN  Run(tokens[NameAt(tokens)].s)

\* dropping a profile drops the elements that inherit it
ExecDropSettingsProfile(d, tokens) ==
    LET Run(name) ==
            IF ~ProfileExists(d, name) THEN ExecErr(d)
            ELSE ExecOk([d EXCEPT
                !.profiles[ProfileIdOf(d, name)] = NULL,
                !.users = [n \in UserNames |->
                    IF d.users[n] = Absent THEN Absent
                    ELSE [d.users[n] EXCEPT !.rows = Without(@, name)]],
                !.roles = [i \in RoleIds |->
                    IF d.roles[i] = Absent THEN Absent
                    ELSE [d.roles[i] EXCEPT !.rows = Without(@, name)]]])
    IN  Run(tokens[NameAt(tokens)].s)

\* clickhouseClient.Exec of a statement that reaches the server
ExecStmt(d, tokens) ==
    LET Run(head) ==
            CASE head = <<"CREATE", "USER">> -> ExecCreateUser(d, tokens)
              [] head = <<"ALTER", "USER">> -> ExecAlterUser(d, tokens)
              [] head = <<"ALTER", "ROLE">> -> ExecAlterRole(d, tokens)
              [] head = <<"DROP", "USER">> -> ExecDropUser(d, tokens)
              [] head = <<"DROP", "SETTINGS">> -> ExecDropSettingsProfile(d, tokens)
              [] OTHER -> ExecErr(d)
    IN  Run(<<tokens[1].s, tokens[2].s>>)

-----------------------------------------------------------------------------
(* internal/dbops.  Every function takes the database d and a fault index   *)
(* f: the f-th call of the ClickHouse client (Select or Exec) made by the   *)
(* function returns an error, none when f = 0.  It returns                  *)
(*   err    an error was returned        val    the returned value          *)
(*   db     the database afterwards      stmts  the statements Exec ran     *)
(*   calls  the client calls made        panic  a nil dereference ended it  *)

Nil == [nil |-> TRUE]
MaxCalls == 6             \* a handler makes at most 6 client calls
Faults == 0..MaxCalls

Res(err, val, d, stmts, calls) ==
    [err |-> err, val |-> val, db |-> d, stmts |-> stmts, calls |-> calls, panic |-> FALSE]
Panic(d, stmts, calls) ==
    [err |-> TRUE, val |-> Nil, db |-> d, stmts |-> stmts, calls |-> calls, panic |-> TRUE]
Rest(f, n) == IF f > n THEN f - n ELSE 0
\* r2 ran after the calls and statements of r1
After(r1, r2) == [r2 EXCEPT !.stmts = r1.stmts \o @, !.calls = r1.calls + @]

\* the function returns nil and an error after the calls of r
Fail(r) == [r EXCEPT !.err = TRUE, !.val = Nil]
\* the function returns no value
NoVal(r) == [r EXCEPT !.val = Nil]

\* one Exec of built tokens as the k-th call of the caller
Exec(d, tokens, f) ==
    LET Ran(e) == IF e.err THEN Res(TRUE, Nil, d, <<>>, 1)
                  ELSE Res(FALSE, Nil, e.db, <<tokens>>, 1)
    IN  IF f = 1 THEN Res(TRUE, Nil, d, <<>>, 1) ELSE Ran(ExecStmt(d, tokens))

DbUser(id, name, profiles) == [ID |-> id, Name |-> name, SettingsProfiles |-> profiles]

HasSettingProfile(u, profileName) ==
    \E i \in DOMAIN u.SettingsProfiles : u.SettingsProfiles[i] = profileName

\* part_004
GetUserByName(d, name, f) ==
    IF f = 1 THEN Res(TRUE, Nil, d, <<>>, 1)
    ELSE IF ~UserExists(d, name) THEN Res(FALSE, Nil, d, <<>>, 1)
    ELSE IF f = 2 THEN Res(TRUE, Nil, d, <<>>, 2)
    ELSE Res(FALSE, DbUser(d.users[name].id, name, NonNull(d.users[name].rows)),
             d, <<>>, 2)

GetUserByUUID(d, uuid, f) ==
    IF f = 1 THEN Res(TRUE, Nil, d, <<>>, 1)
    ELSE IF NameOfUUID(d, uuid) = "" THEN Res(FALSE, Nil, d, <<>>, 1)
    ELSE After(Res(FALSE, Nil, d, <<>>, 1), GetUserByName(d, NameOfUUID(d, uuid), Rest(f, 1)))

\* internal/dbops/user.go: the profiles are collected and not stored in the user
GetUser(d, id, f) ==
    IF f = 1 THEN Res(TRUE, Nil, d, <<>>, 1)
    ELSE IF NameOfUUID(d, id) = "" THEN Res(FALSE, Nil, d, <<>>, 1)
    ELSE IF f = 2 THEN Res(TRUE, Nil, d, <<>>, 2)
    ELSE Res(FALSE, DbUser(id, NameOfUUID(d, id), <<>>), d, <<>>, 2)

\* the query CreateUser builds, the same in both files
CreateUserQuery(user, clusterName) ==
    LET Ident(q) == IF user.SSLCertificateCN # ""
                    THEN IdentifiedWithSSLCertCN(q, user.SSLCertificateCN)
                    ELSE IF user.PasswordSha256Hash # ""
                    THEN Identified(q, IdentificationSHA256Hash, user.PasswordSha256Hash)
                    ELSE q
        Role(q) == IF user.DefaultRole # "" THEN WithDefaultRole(q, user.DefaultRole) ELSE q
    IN  Role(Ident(WithCluster(NewCreateUser(user.Name), clusterName)))

\* part_004
CreateUser(d, user, clusterName, f) ==
    LET Ran(e) == IF e.err THEN e
                  ELSE After(e, GetUserByName(e.db, user.Name, Rest(f, 1)))
        Built(b) == IF b.err THEN Res(TRUE, Nil, d, <<>>, 0)
                    ELSE Ran(Exec(d, b.tokens, f))
    IN  Built(CreateUserBuild(CreateUserQuery(user, clusterName)))

\* internal/dbops/user.go
FindUserByNameV1(d, name, f) ==
    IF f = 1 THEN Res(TRUE, Nil, d, <<>>, 1)
    ELSE After(Res(FALSE, Nil, d, <<>>, 1),
               GetUser(d, IF UserExists(d, name) THEN d.users[name].id ELSE "", Rest(f, 1)))

CreateUserV1(d, user, clusterName, f) ==
    LET Ran(e) == IF e.err THEN e
                  ELSE After(e, FindUserByNameV1(e.db, user.Name, Rest(f, 1)))
        Built(b) == IF b.err THEN Res(TRUE, Nil, d, <<>>, 0)
                    ELSE Ran(Exec(d, b.tokens, f))
    IN  Built(CreateUserBuild(CreateUserQuery(user, clusterName)))

\* part_004: user.ID carries the current name
UpdateUser(d, user, clusterName, f) ==
    LET Renamed(q, existing) ==
            IF user.Name # "" /\ user.Name # existing.Name
            THEN RenameTo(q, user.Name) ELSE q
        finalName(existing) == IF user.Name # "" THEN user.Name ELSE existing.Name
        Ran(e, existing) ==
            IF e.err THEN e
            ELSE After(e, GetUserByName(e.db, finalName(existing), Rest(f, e.calls)))
        Built(b, g) ==
            IF b.err THEN Fail(g)
            ELSE Ran(After(g, Exec(d, b.tokens, Rest(f, g.calls))), g.val)
        Found(g) ==
            IF g.err THEN g
            ELSE IF g.val = Nil THEN Fail(g)
            ELSE Built(AlterUserBuild(
                    Renamed(WithCluster(NewAlterUser(g.val.Name), clusterName), g.val)), g)
    IN  Found(GetUserByName(d, user.ID, f))

\* internal/dbops/user.go: user.ID is looked up as the UUID, and existing is
\* dereferenced without a nil check
UpdateUserV1(d, user, clusterName, f) ==
    LET Ran(e) == IF e.err THEN e
                  ELSE After(e, GetUser(e.db, user.ID, Rest(f, e.calls)))
        Built(b, g) == IF b.err THEN Fail(g)
                       ELSE Ran(After(g, Exec(d, b.tokens, Rest(f, g.calls))))
        Found(g) ==
            IF g.err THEN g
            ELSE IF g.val = Nil THEN Panic(d, <<>>, g.calls)
            ELSE Built(AlterUserBuild(
                    RenameTo(WithCluster(NewAlterUser(g.val.Name), clusterName),
                             user.Name)), g)
    IN  Found(GetUser(d, user.ID, f))

\* part_004: delete by name
DeleteUser(d, name, clusterName, f) ==
    LET Built(b, g) == IF b.err THEN Fail(g)
                       ELSE NoVal(After(g, Exec(d, b.tokens, Rest(f, g.calls))))
        Found(g) == IF g.err THEN g
                    ELSE IF g.val = Nil THEN g
                    ELSE Built(DropUserBuild(g.val.Name, clusterName), g)
    IN  Found(GetUserByName(d, name, f))

\* internal/dbops/user.go: delete by UUID
DeleteUserV1(d, id, clusterName, f) ==
    LET Built(b, g) == IF b.err THEN Fail(g)
                       ELSE NoVal(After(g, Exec(d, b.tokens, Rest(f, g.calls))))
        Found(g) == IF g.err THEN g
                    ELSE IF g.val = Nil THEN g
                    ELSE Built(DropUserBuild(g.val.Name, clusterName), g)
    IN  Found(GetUser(d, id, f))

-----------------------------------------------------------------------------
(* internal/dbops: settings profiles, roles *)

DbProfile(id, name) == [ID |-> id, Name |-> name, InheritFrom |-> <<>>]

GetSettingsProfile(d, id, f) ==
    IF f = 1 THEN Res(TRUE, Nil, d, <<>>, 1)
    ELSE IF ProfileName(d, id) = NULL THEN Res(FALSE, Nil, d, <<>>, 1)
    ELSE IF f = 2 THEN Res(TRUE, Nil, d, <<>>, 2)
    ELSE Res(FALSE, DbProfile(id, ProfileName(d, id)), d, <<>>, 2)

\* a name that is not found is an error, not a nil profile
FindSettingsProfileByName(d, name, f) ==
    IF f = 1 THEN Res(TRUE, Nil, d, <<>>, 1)
    ELSE IF ProfileIdOf(d, name) = "" THEN Res(TRUE, Nil, d, <<>>, 1)
    ELSE After(Res(FALSE, Nil, d, <<>>, 1),
               GetSettingsProfile(d, ProfileIdOf(d, name), Rest(f, 1)))

GetSettingsProfileByName(d, name, f) == FindSettingsProfileByName(d, name, f)

DeleteSettingsProfile(d, id, clusterName, f) ==
    LET Built(b, g) == IF b.err THEN Fail(g)
                       ELSE NoVal(After(g, Exec(d, b.tokens, Rest(f, g.calls))))
        Found(g) == IF g.err THEN g
                    ELSE IF g.val = Nil THEN g
                    ELSE Built(DropSettingsProfileBuild(g.val.Name, clusterName), g)
    IN  Found(GetSettingsProfile(d, id, f))

\* role.go is not part of the sources: GetRole is taken to read system.roles by
\* id and the role's inherited profiles, as GetUserByName does for a user
GetRole(d, id, f) ==
    IF f = 1 THEN Res(TRUE, Nil, d, <<>>, 1)
    ELSE IF RoleById(d, id) = Absent THEN Res(FALSE, Nil, d, <<>>, 1)
    ELSE IF f = 2 THEN Res(TRUE, Nil, d, <<>>, 2)
    ELSE Res(FALSE, DbUser(id, d.roles[id].name, NonNull(d.roles[id].rows)), d, <<>>, 2)

\* uuid.Parse(ref) succeeds
IsUUID(ref) == ref \in UserUUIDs

\* resolveUserName is not part of the sources: the name of the user that a
\* UUID or a name refers to, "" when there is none
resolveUserName(d, ref, f) ==
    IF f = 1 THEN Res(TRUE, "", d, <<>>, 1)
    ELSE Res(FALSE,
             IF IsUUID(ref) THEN NameOfUUID(d, ref)
             ELSE IF UserExists(d, ref) THEN ref ELSE "",
             d, <<>>, 1)

\* the tail of both functions once the ALTER query q is chosen
RunAlter(g, b, f) ==
    IF b.err THEN Fail(g)
    ELSE NoVal(After(g, Exec(g.db, b.tokens, Rest(f, g.calls))))

AssociateSettingsProfile(d, id, roleId, userId, clusterName, f, def) ==
    LET OfRole(r, profile) ==
            IF r.err THEN r
            ELSE IF r.val = Nil THEN Fail(r)
            ELSE RunAlter(r, AlterRoleBuild(
                    AddSettingsProfile(WithCluster(NewAlterRole(r.val.Name), clusterName),
                                       profile.Name), def), f)
        OfUser(u, profile) ==
            IF u.err THEN NoVal(u)
            ELSE IF u.val = "" THEN Fail(u)
            ELSE RunAlter(u, AlterUserBuild(
                    SetSettingsProfile(WithCluster(NewAlterUser(u.val), clusterName),
                                       profile.Name)), f)
        Found(p) ==
            IF p.err THEN p
            ELSE IF p.val = Nil THEN Fail(p)
            ELSE IF roleId # NULL
            THEN OfRole(After(p, GetRole(d, roleId, Rest(f, p.calls))), p.val)
            ELSE IF userId # NULL
            THEN OfUser(After(p, resolveUserName(d, userId, Rest(f, p.calls))), p.val)
            ELSE Fail(p)
    IN  Found(GetSettingsProfile(d, id, f))

DisassociateSettingsProfile(d, id, roleId, userId, clusterName, f, def) ==
    LET OfRole(r, profile) ==
            IF r.err THEN r
            ELSE IF r.val = Nil THEN Fail(r)
            ELSE RunAlter(r, AlterRoleBuild(
                    DropSettingsProfile(WithCluster(NewAlterRole(r.val.Name), clusterName),
                                        profile.Name), def), f)
        OfUser(u) ==
            IF u.err THEN NoVal(u)
            ELSE IF u.val = "" THEN Fail(u)
            ELSE RunAlter(u, AlterUserBuild(
                    SetSettingsProfile(WithCluster(NewAlterUser(u.val), clusterName), "")), f)
        Found(p) ==
            IF p.err THEN p
            ELSE IF p.val = Nil THEN Fail(p)
            ELSE IF roleId # NULL
            THEN OfRole(After(p, GetRole(d, roleId, Rest(f, p.calls))), p.val)
            ELSE IF userId # NULL
            THEN OfUser(After(p, resolveUserName(d, userId, Rest(f, p.calls))))
            ELSE Fail(p)
    IN  Found(GetSettingsProfile(d, id, f))

-----------------------------------------------------------------------------
(* pkg/resource/user: the handlers.  A handler returns                      *)
(*   err    the response holds an error diagnostic                           *)
(*   state  the state the response holds (NoState: removed, or never set)    *)
(*   r      the result of the dbops call, for the record                     *)

NoState == [null |-> TRUE]

Handled(err, st, r) == [err |-> err, state |-> st, r |-> r]

\* Create as it would be if the state kept the hash of the configuration
CreateKeepsHash(plan, config, d, f, src) ==
    LET u == [ID |-> "",
              Name |-> ValueString(plan.name),
              PasswordSha256Hash |-> ValueString(config.password_sha256_hash_wo),
              SSLCertificateCN |-> ValueString(plan.ssl_certificate_cn),
              DefaultRole |-> IF IsSet(plan.default_role)
                              THEN ValueString(plan.default_role) ELSE "",
              SettingsProfile |-> IF IsSet(plan.settings_profile)
                                  THEN ValueString(plan.settings_profile) ELSE ""]
        Created(r) ==
            IF r.err THEN Handled(TRUE, NoState, r)
            ELSE IF r.val = Nil THEN Handled(TRUE, NoState, [r EXCEPT !.panic = TRUE])
            ELSE Handled(FALSE,
                    [cluster_name |-> plan.cluster_name,
                     id |-> r.val.Name,
                     name |-> r.val.Name,
                     default_role |-> plan.default_role,
                     settings_profile |-> plan.settings_profile,
                     password_sha256_hash_wo_version |-> plan.password_sha256_hash_wo_version,
                     password_sha256_hash_wo |-> config.password_sha256_hash_wo,
                     ssl_certificate_cn |-> IF IsSet(plan.ssl_certificate_cn)
                                            THEN plan.ssl_certificate_cn ELSE NULL],
                    r)
    IN  Created(IF src = "part_004"
                THEN CreateUser(d, u, ValueStringPointer(plan.cluster_name), f)
                ELSE CreateUserV1(d, u, ValueStringPointer(plan.cluster_name), f))

\* Create: state is the prior state (none); config holds the write-only hash
Create(plan, config, d, f, src) ==
    LET u == [ID |-> "",
              Name |-> ValueString(plan.name),
              PasswordSha256Hash |-> ValueString(config.password_sha256_hash_wo),
              SSLCertificateCN |-> ValueString(plan.ssl_certificate_cn),
              DefaultRole |-> IF IsSet(plan.default_role)
                              THEN ValueString(plan.default_role) ELSE "",
              SettingsProfile |-> IF IsSet(plan.settings_profile)
                                  THEN ValueString(plan.settings_profile) ELSE ""]
        Created(r) ==
            IF r.err THEN Handled(TRUE, NoState, r)
            ELSE IF r.val = Nil THEN Handled(TRUE, NoState, [r EXCEPT !.panic = TRUE])
            ELSE Handled(FALSE,
                    [cluster_name |-> plan.cluster_name,
                     id |-> r.val.Name,
                     name |-> r.val.Name,
                     default_role |-> plan.default_role,
                     settings_profile |-> plan.settings_profile,
                     password_sha256_hash_wo_version |-> plan.password_sha256_hash_wo_version,
                     password_sha256_hash_wo |-> NULL,
                     ssl_certificate_cn |-> IF IsSet(plan.ssl_certificate_cn)
                                            THEN plan.ssl_certificate_cn ELSE NULL],
                    r)
    IN  Created(IF src = "part_004"
                THEN CreateUser(d, u, ValueStringPointer(plan.cluster_name), f)
                ELSE CreateUserV1(d, u, ValueStringPointer(plan.cluster_name), f))

\* Read as it would be if it always mirrored the first profile reported
ReadSettingsProfileMirror(st, user) ==
    IF Len(user.SettingsProfiles) = 0 THEN NULL ELSE user.SettingsProfiles[1]

\* the settings_profile that Read leaves in the state
ReadSettingsProfile(st, user) ==
    IF Len(user.SettingsProfiles) = 0 THEN NULL
    ELSE IF IsSet(st.settings_profile)
    THEN (IF \E i \in DOMAIN user.SettingsProfiles :
                user.SettingsProfiles[i] = ValueString(st.settings_profile)
          THEN st.settings_profile
          ELSE user.SettingsProfiles[1])
    ELSE st.settings_profile

\* Read as it would be if the id were the ID that ClickHouse returns
ReadIdFromUUID(st, d, f) ==
    LET Got(r) ==
            IF r.err THEN Handled(TRUE, st, r)
            ELSE IF r.val = Nil THEN Handled(FALSE, NoState, r)
            ELSE Handled(FALSE,
                    [st EXCEPT !.name = r.val.Name,
                               !.id = r.val.ID,
                               !.ssl_certificate_cn = IF @ = UNKNOWN THEN NULL ELSE @,
                               !.settings_profile = ReadSettingsProfile(st, r.val)],
                    r)
    IN  Got(GetUserByName(d, ValueString(st.id), f))

\* Read as it would be if default_role were read back from the user, whose
\* DefaultRole GetUserByName never fills
ReadDefaultRoleBack(st, d, f) ==
    LET Got(r) ==
            IF r.err THEN Handled(TRUE, st, r)
            ELSE IF r.val = Nil THEN Handled(FALSE, NoState, r)
            ELSE Handled(FALSE,
                    [st EXCEPT !.name = r.val.Name,
                               !.id = r.val.Name,
                               !.default_role = NULL,
                               !.ssl_certificate_cn = IF @ = UNKNOWN THEN NULL ELSE @,
                               !.settings_profile = ReadSettingsProfile(st, r.val)],
                    r)
    IN  Got(GetUserByName(d, ValueString(st.id), f))

\* GetUserByName never fills SSLCertificateCN, so user.SSLCertificateCN is ""
Read(st, d, f) ==
    LET Got(r) ==
            IF r.err THEN Handled(TRUE, st, r)
            ELSE IF r.val = Nil THEN Handled(FALSE, NoState, r)
            ELSE Handled(FALSE,
                    [st EXCEPT !.name = r.val.Name,
                               !.id = r.val.Name,
                               !.ssl_certificate_cn = IF @ = UNKNOWN THEN NULL ELSE @,
                               !.settings_profile = ReadSettingsProfile(st, r.val)],
                    r)
    IN  Got(GetUserByName(d, ValueString(st.id), f))

Update(plan, st, d, f, src) ==
    LET u == [ID |-> ValueString(st.id),
              Name |-> ValueString(plan.name),
              SSLCertificateCN |-> ValueString(plan.ssl_certificate_cn)]
        Updated(r) ==
            IF r.err THEN Handled(TRUE, st, r)
            ELSE IF r.val = Nil THEN Handled(TRUE, st, [r EXCEPT !.panic = TRUE])
            ELSE Handled(FALSE,
                    [st EXCEPT !.name = r.val.Name,
                               !.id = r.val.Name,
                               !.default_role = plan.default_role,
                               !.settings_profile = plan.settings_profile,
                               !.ssl_certificate_cn =
                                   IF IsSet(plan.ssl_certificate_cn)
                                   THEN plan.ssl_certificate_cn ELSE @],
                    r)
    IN  Updated(IF src = "part_004"
                THEN UpdateUser(d, u, ValueStringPointer(plan.cluster_name), f)
                ELSE UpdateUserV1(d, u, ValueStringPointer(plan.cluster_name), f))

\* Delete as it would be if a failed DeleteUser still dropped the state
DeleteDropsState(st, d, f, src) ==
    LET Deleted(r) == Handled(r.err, NoState, r)
    IN  Deleted(IF src = "part_004"
                THEN DeleteUser(d, ValueString(st.id), ValueStringPointer(st.cluster_name), f)
                ELSE DeleteUserV1(d, ValueString(st.id), ValueStringPointer(st.cluster_name), f))

\* the framework drops the state when Delete returns without an error
Delete(st, d, f, src) ==
    LET Deleted(r) == IF r.err THEN Handled(TRUE, st, r) ELSE Handled(FALSE, NoState, r)
    IN  Deleted(IF src = "part_004"
                THEN DeleteUser(d, ValueString(st.id), ValueStringPointer(st.cluster_name), f)
                ELSE DeleteUserV1(d, ValueString(st.id), ValueStringPointer(st.cluster_name), f))

EmptyUserState ==
    [cluster_name |-> NULL, id |-> NULL, name |-> NULL, default_role |-> NULL,
     settings_profile |-> NULL, password_sha256_hash_wo_version |-> NULL,
     password_sha256_hash_wo |-> NULL, ssl_certificate_cn |-> NULL]

\* ImportState of "<cluster>:<ref>" (clusterName set) or "<ref>"
ImportState(clusterName, ref, d, f) ==
    LET st0 == [EmptyUserState EXCEPT !.cluster_name = clusterName]
        Got(r) == IF r.err \/ r.val = Nil THEN Handled(TRUE, NoState, r)
                  ELSE Handled(FALSE, [st0 EXCEPT !.id = r.val.Name], r)
    IN  IF IsUUID(ref) THEN Got(GetUserByUUID(d, ref, f))
        ELSE Handled(FALSE, [st0 EXCEPT !.id = ref], Res(FALSE, Nil, d, <<>>, 0))

\* ModifyPlan as it would be if it only refused the two attributes together
ModifyPlanBothOnly(destroy, cfg, client, repl) ==
    LET none == [err |-> FALSE, attrErrors |-> {}, warning |-> FALSE, asked |-> FALSE]
        Checked(passSet, cnSet) ==
            IF passSet /\ cnSet
            THEN [none EXCEPT !.err = TRUE,
                              !.attrErrors = {"ssl_certificate_cn", "password_sha256_hash_wo"}]
            ELSE IF ~client THEN none
            ELSE IF repl = "err" THEN [none EXCEPT !.err = TRUE, !.asked = TRUE]
            ELSE [none EXCEPT !.asked = TRUE,
                              !.warning = (repl = "yes" /\ cfg.cluster_name # NULL)]
    IN  IF destroy THEN none
        ELSE Checked(IsSet(cfg.password_sha256_hash_wo), IsSet(cfg.ssl_certificate_cn))

\* ModifyPlan: destroy says the plan is null; client says r.client is set;
\* repl is what IsReplicatedStorage returns: "yes", "no" or "err"
ModifyPlan(destroy, cfg, client, repl) ==
    LET none == [err |-> FALSE, attrErrors |-> {}, warning |-> FALSE, asked |-> FALSE]
        Checked(passSet, cnSet) ==
            IF (passSet /\ cnSet) \/ (~passSet /\ ~cnSet)
            THEN [none EXCEPT !.err = TRUE,
                              !.attrErrors = {"ssl_certificate_cn", "password_sha256_hash_wo"}]
            ELSE IF ~client THEN none
            ELSE IF repl = "err" THEN [none EXCEPT !.err = TRUE, !.asked = TRUE]
            ELSE [none EXCEPT !.asked = TRUE,
                              !.warning = (repl = "yes" /\ cfg.cluster_name # NULL)]
    IN  IF destroy THEN none
        ELSE Checked(IsSet(cfg.password_sha256_hash_wo), IsSet(cfg.ssl_certificate_cn))

-----------------------------------------------------------------------------
(* pkg/resource/settingsprofileassociation: the handlers *)

\* resolveSettingsProfile: err when a diagnostic was added
resolveSettingsProfile(plan, d, f) ==
    LET Got(p) == IF p.err THEN p ELSE IF p.val = Nil THEN Fail(p) ELSE p
    IN  IF IsSet(plan.settings_profile_id)
        THEN Got(GetSettingsProfile(d, ValueString(plan.settings_profile_id), f))
        ELSE IF IsSet(plan.settings_profile_name)
        THEN Got(GetSettingsProfileByName(d, ValueString(plan.settings_profile_name), f))
        ELSE Res(TRUE, Nil, d, <<>>, 0)

\* getSettingsProfile: a nil profile with no error when the state names none
getSettingsProfile(st, d, f) ==
    IF IsSet(st.settings_profile_id) /\ ValueString(st.settings_profile_id) # ""
    THEN GetSettingsProfile(d, ValueString(st.settings_profile_id), f)
    ELSE IF IsSet(st.settings_profile_name) /\ ValueString(st.settings_profile_name) # ""
    THEN GetSettingsProfileByName(d, ValueString(st.settings_profile_name), f)
    ELSE Res(FALSE, Nil, d, <<>>, 0)

AssocCreateHandler(plan, d, f, def) ==
    LET Associated(a, profile) ==
            IF a.err THEN Handled(TRUE, NoState, a)
            ELSE Handled(FALSE,
                    [cluster_name |-> plan.cluster_name,
                     settings_profile_id |-> profile.ID,
                     settings_profile_name |-> profile.Name,
                     role_id |-> plan.role_id,
                     user_id |-> plan.user_id],
                    a)
        Resolved(p) ==
            IF p.err THEN Handled(TRUE, NoState, NoVal(p))
            ELSE Associated(
                    After(p, AssociateSettingsProfile(d, p.val.ID,
                            ValueStringPointer(plan.role_id), ValueStringPointer(plan.user_id),
                            ValueStringPointer(plan.cluster_name), Rest(f, p.calls), def)),
                    p.val)
    IN  Resolved(resolveSettingsProfile(plan, d, f))

\* Read as it would be if it only looked for the role or the user, and not
\* for the profile among its profiles
AssocReadGranteeOnly(st, d, f) ==
    LET OfGrantee(g, settingsProfile) ==
            IF g.err THEN Handled(TRUE, st, g)
            ELSE IF g.val = Nil THEN Handled(FALSE, NoState, g)
            ELSE Handled(FALSE, st, g)
        OfUser(ref, p) ==
            OfGrantee(After(p, IF IsUUID(ref) THEN GetUserByUUID(d, ref, Rest(f, p.calls))
                               ELSE GetUserByName(d, ref, Rest(f, p.calls))),
                      p.val)
        Got(p) ==
            IF p.err THEN Handled(TRUE, st, p)
            ELSE IF p.val = Nil THEN Handled(FALSE, NoState, p)
            ELSE IF IsSet(st.role_id)
            THEN OfGrantee(After(p, GetRole(d, ValueString(st.role_id), Rest(f, p.calls))),
                           p.val)
            ELSE IF IsSet(st.user_id) THEN OfUser(ValueString(st.user_id), p)
            ELSE Handled(FALSE, st, p)
    IN  Got(getSettingsProfile(st, d, f))

\* Read never sets the state: it is kept as it was, or removed
AssocReadHandler(st, d, f) ==
    LET OfGrantee(g, settingsProfile) ==
            IF g.err THEN Handled(TRUE, st, g)
            ELSE IF g.val = Nil \/ ~HasSettingProfile(g.val, settingsProfile.Name)
            THEN Handled(FALSE, NoState, g)
            ELSE Handled(FALSE, st, g)
        OfUser(ref, p) ==
            OfGrantee(After(p, IF IsUUID(ref) THEN GetUserByUUID(d, ref, Rest(f, p.calls))
                               ELSE GetUserByName(d, ref, Rest(f, p.calls))),
                      p.val)
        Got(p) ==
            IF p.err THEN Handled(TRUE, st, p)
            ELSE IF p.val = Nil THEN Handled(FALSE, NoState, p)
            ELSE IF IsSet(st.role_id)
            THEN OfGrantee(After(p, GetRole(d, ValueString(st.role_id), Rest(f, p.calls))),
                           p.val)
            ELSE IF IsSet(st.user_id) THEN OfUser(ValueString(st.user_id), p)
            ELSE Handled(FALSE, st, p)
    IN  Got(getSettingsProfile(st, d, f))

AssocDeleteHandler(st, d, f, def) ==
    LET Disassociated(x) ==
            IF x.err THEN Handled(TRUE, st, x) ELSE Handled(FALSE, NoState, x)
        Run(profileID, p) ==
            Disassociated(After(p, DisassociateSettingsProfile(d, profileID,
                    ValueStringPointer(st.role_id), ValueStringPointer(st.user_id),
                    ValueStringPointer(st.cluster_name), Rest(f, p.calls), def)))
        Looked(p) ==
            IF p.err THEN Handled(TRUE, st, p)
            ELSE IF p.val = Nil THEN Handled(FALSE, NoState, p)
            ELSE Run(p.val.ID, p)
    IN  IF ValueString(st.settings_profile_id) = ""
        THEN Looked(getSettingsProfile(st, d, f))
        ELSE Run(ValueString(st.settings_profile_id), Res(FALSE, Nil, d, <<>>, 0))

-----------------------------------------------------------------------------
(* The record of the last call *)

\* fault is the call that failed, 0 when every call that was made succeeded
Last(op, h, f, arg) ==
    [op |-> op, err |-> h.err, panic |-> h.r.panic, stmts |-> h.r.stmts,
     calls |-> h.r.calls, fault |-> IF f <= h.r.calls THEN f ELSE 0,
     val |-> h.r.val, arg |-> arg]

NoArg == [none |-> TRUE]

-----------------------------------------------------------------------------
(* Inputs *)

OrNull(S) == S \cup {NULL}
PlanProfiles == {"p1"}    \* the profiles a configuration names

\* a plan or a configuration of the user resource at apply time
\* (the two attributes that require replacement are set or left out together)
UserPlans ==
    {pl \in [cluster_name : OrNull(ClusterNames),
             name : UserNames,
             ssl_certificate_cn : OrNull(CertCNs),
             default_role : OrNull(RoleNames),
             settings_profile : OrNull(PlanProfiles),
             password_sha256_hash_wo_version : OrNull(Versions)] :
        (pl.cluster_name = NULL) = (pl.password_sha256_hash_wo_version = NULL)}

\* the configuration ModifyPlan reads: a value may still be unknown
UserConfigs ==
    [cluster_name : OrNull(ClusterNames),
     ssl_certificate_cn : OrNull(CertCNs) \cup {UNKNOWN},
     password_sha256_hash_wo : OrNull(Hashes) \cup {UNKNOWN}]

\* a plan of the association: ExactlyOneOf holds for the profile reference
\* and for the grantee; the computed counterpart of the reference is unknown
AssocUserRefs == {"john"} \cup UserUUIDs
AssocPlans ==
    {pl \in [cluster_name : OrNull(ClusterNames),
             settings_profile_id : {"sp-1", UNKNOWN},
             settings_profile_name : PlanProfiles \cup {UNKNOWN},
             role_id : OrNull(RoleIds),
             user_id : OrNull(AssocUserRefs)] :
        /\ (pl.settings_profile_id = UNKNOWN) # (pl.settings_profile_name = UNKNOWN)
        /\ (pl.role_id = NULL) # (pl.user_id = NULL)}

-----------------------------------------------------------------------------
(* Initial states *)

RowsOf(d, rows) == \A i \in DOMAIN rows : rows[i] = NULL \/ ProfileExists(d, rows[i])

\* rows only name profiles that exist
Consistent(d) ==
    /\ \A n \in UserNames : d.users[n] = Absent \/ RowsOf(d, d.users[n].rows)
    /\ \A i \in RoleIds : d.roles[i] = Absent \/ RowsOf(d, d.roles[i].rows)

\* no dbops call is in flight
NoRun == <<>>

InitLast == [op |-> "init", err |-> FALSE, panic |-> FALSE, stmts |-> <<>>,
             calls |-> 0, fault |-> 0, val |-> Nil, arg |-> NoArg]

\* the rows of a user the resource finds: the profile a plan names, or NULL
UserRows == {r \in Rows : \A i \in DOMAIN r : r[i] \in OrNull(PlanProfiles)}

\* the rows of a user or a role that a resource finds: at most one
ShortRows == {r \in UserRows : Len(r) <= 1}

\* the user resource: john may exist already, with any rows; no roles
InitUser ==
    /\ db \in {d \in [users : [UserNames ->
                                 {Absent} \cup [id : {"uuid-1"}, rows : ShortRows]],
                       profiles : {[i \in ProfileIds |->
                                      IF i = "sp-1" THEN "p1" ELSE "p2"]},
                       roles : {[i \in RoleIds |-> Absent]}] :
                /\ d.users["jane"] = Absent
                /\ Consistent(d)}
    /\ linked \in [user : {"user.go", "part_004"}, alterRole : {2}]
    /\ state = NoState
    /\ assoc = NoState
    /\ last = InitLast
    /\ run = NoRun

\* a state that Create of the association has stored in an earlier run, for
\* the profile p1
AssocStates ==
    {st \in [cluster_name : OrNull(ClusterNames),
             settings_profile_id : {"sp-1"},
             settings_profile_name : {"p1"},
             role_id : OrNull(RoleIds),
             user_id : OrNull(AssocUserRefs)] :
        (st.role_id = NULL) # (st.user_id = NULL)}

\* the association resource: the profile p1 exists, john and the role r1 may
\* exist, with rows; the resource may have been created earlier, and the
\* database changed since
InitAssoc ==
    /\ db \in [users : {u \in [UserNames ->
                                 {Absent} \cup [id : {"uuid-1"}, rows : ShortRows]] :
                            u["jane"] = Absent},
                profiles : {[i \in ProfileIds |-> IF i = "sp-1" THEN "p1" ELSE NULL]},
                roles : [RoleIds -> {Absent} \cup [name : RoleNames, rows : ShortRows]]]
    /\ linked \in [user : {"part_004"}, alterRole : {1, 2}]
    /\ state = NoState
    /\ assoc \in {NoState} \cup AssocStates
    /\ last = InitLast
    /\ run = NoRun

-----------------------------------------------------------------------------
(* Actions of the user resource *)

UserCreate ==
    /\ state = NoState
    /\ \E plan \in UserPlans, hash \in OrNull(Hashes), f \in Faults :
         \* ModifyPlan has let the plan through: exactly one of the two is set
         /\ (hash = NULL) # (plan.ssl_certificate_cn = NULL)
         /\ \E h \in {Create(plan, [password_sha256_hash_wo |-> hash], db, f, linked.user)} :
                /\ state' = h.state
                /\ db' = h.r.db
                /\ last' = Last("Create", h, f,
                              [settings_profile |-> plan.settings_profile,
                               default_role |-> plan.default_role,
                               hash |-> hash])
    /\ UNCHANGED <<run, linked, assoc>>

UserRead ==
    /\ state # NoState
    /\ \E f \in Faults :
         \E h \in {Read(state, db, f)} :
             /\ state' = h.state
             /\ db' = h.r.db
             /\ last' = Last("Read", h, f, [st |-> state])
    /\ UNCHANGED <<run, linked, assoc>>

\* cluster_name and the password version require replacement: an update
\* plans them as they are in the state
UserUpdate ==
    /\ state # NoState
    /\ \E plan \in UserPlans, f \in Faults :
         /\ plan.cluster_name = state.cluster_name
         /\ plan.password_sha256_hash_wo_version = state.password_sha256_hash_wo_version
         /\ \E h \in {Update(plan, state, db, f, linked.user)} :
                /\ state' = h.state
                /\ db' = h.r.db
                /\ last' = Last("Update", h, f,
                              [name |-> plan.name, id |-> state.id,
                               existed |-> UserExists(db, ValueString(state.id))])
    /\ UNCHANGED <<run, linked, assoc>>

UserDelete ==
    /\ state # NoState
    /\ \E f \in Faults :
         \E h \in {Delete(state, db, f, linked.user)} :
             /\ state' = h.state
             /\ db' = h.r.db
             /\ last' = Last("Delete", h, f, NoArg)
    /\ UNCHANGED <<run, linked, assoc>>

UserImportState ==
    /\ state = NoState
    /\ \E clusterName \in OrNull(ClusterNames), ref \in UserNames \cup UserUUIDs, f \in Faults :
         \E h \in {ImportState(clusterName, ref, db, f)} :
             /\ state' = h.state
             /\ db' = h.r.db
             /\ last' = Last("ImportState", h, f, NoArg)
    /\ UNCHANGED <<run, linked, assoc>>

UserModifyPlan ==
    /\ \E destroy \in BOOLEAN, cfg \in UserConfigs, client \in BOOLEAN,
          repl \in {"yes", "no", "err"} :
         \E m \in {ModifyPlan(destroy, cfg, client, repl)} :
             last' = [op |-> "ModifyPlan", err |-> m.err, panic |-> FALSE, stmts |-> <<>>,
                      calls |-> IF m.asked THEN 1 ELSE 0,
                      fault |-> IF m.asked /\ repl = "err" THEN 1 ELSE 0, val |-> Nil,
                      arg |-> [destroy |-> destroy, cfg |-> cfg, client |-> client,
                               repl |-> repl, attrErrors |-> m.attrErrors,
                               warning |-> m.warning]]
    /\ UNCHANGED <<run, db, linked, state, assoc>>

NextUser == UserCreate \/ UserRead \/ UserUpdate \/ UserDelete \/ UserImportState

Spec == InitUser /\ [][NextUser]_vars

SpecPlan == InitUser /\ [][UserModifyPlan]_vars

-----------------------------------------------------------------------------
(* Actions of the settings profile association, and of the settings         *)
(* profiles it refers to                                                    *)

AssocCreate ==
    /\ assoc = NoState
    /\ \E plan \in AssocPlans, f \in Faults :
         \E h \in {AssocCreateHandler(plan, db, f, linked.alterRole)} :
             /\ assoc' = h.state
             /\ db' = h.r.db
             /\ last' = Last("AssocCreate", h, f, [plan |-> plan])
    /\ UNCHANGED <<run, linked, state>>

AssocRead ==
    /\ assoc # NoState
    /\ \E f \in Faults :
         \E h \in {AssocReadHandler(assoc, db, f)} :
             /\ assoc' = h.state
             /\ db' = h.r.db
             /\ last' = Last("AssocRead", h, f, [st |-> assoc])
    /\ UNCHANGED <<run, linked, state>>

AssocDelete ==
    /\ assoc # NoState
    /\ \E f \in Faults :
         \E h \in {AssocDeleteHandler(assoc, db, f, linked.alterRole)} :
             /\ assoc' = h.state
             /\ db' = h.r.db
             /\ last' = Last("AssocDelete", h, f, [st |-> assoc])
    /\ UNCHANGED <<run, linked, state>>

\* the settings profile resource deletes a profile, the association in place
SettingsProfileDelete ==
    /\ \E id \in ProfileIds :
         \E r \in {DeleteSettingsProfile(db, id, NULL, 0)} :
             /\ db' = r.db
             /\ last' = Last("DeleteSettingsProfile", Handled(r.err, NoState, r), 0, NoArg)
    /\ UNCHANGED <<run, linked, state, assoc>>

NextAssoc ==
    \/ AssocCreate
    \/ AssocRead
    \/ AssocDelete
    \/ SettingsProfileDelete

SpecAssoc == InitAssoc /\ [][NextAssoc]_vars

-----------------------------------------------------------------------------
(* The user lookups of internal/dbops, applied to a database of users with  *)
(* any rows                                                                 *)

InitLookup ==
    /\ db \in {d \in [users : [UserNames ->
                                 {Absent} \cup [id : {"uuid-1"}, rows : Rows]],
                       profiles : {[i \in ProfileIds |->
                                      IF i = "sp-1" THEN "p1" ELSE "p2"]},
                       roles : {[i \in RoleIds |-> Absent]}] :
                d.users["jane"] = Absent}
    /\ linked \in [user : {"user.go", "part_004"}, alterRole : {2}]
    /\ state = NoState
    /\ assoc = NoState
    /\ last = InitLast
    /\ run = NoRun

\* internal/dbops/user.go
LookupGetUser ==
    /\ linked.user = "user.go"
    /\ \E id \in UserUUIDs, f \in Faults :
         last' = Last("GetUser", Handled(FALSE, NoState, GetUser(db, id, f)), f,
                      [ref |-> id])
    /\ UNCHANGED <<run, db, linked, state, assoc>>

\* part_004
LookupGetUserByUUID ==
    /\ linked.user = "part_004"
    /\ \E uuid \in UserUUIDs, f \in Faults :
         last' = Last("GetUserByUUID", Handled(FALSE, NoState, GetUserByUUID(db, uuid, f)), f,
                      [ref |-> uuid])
    /\ UNCHANGED <<run, db, linked, state, assoc>>

\* part_004
LookupGetUserByName ==
    /\ linked.user = "part_004"
    /\ \E name \in UserNames, f \in Faults :
         last' = Last("GetUserByName", Handled(FALSE, NoState, GetUserByName(db, name, f)), f,
                      [ref |-> name])
    /\ UNCHANGED <<run, db, linked, state, assoc>>

NextLookup == LookupGetUser \/ LookupGetUserByUUID \/ LookupGetUserByName

SpecLookup == InitLookup /\ [][NextLookup]_vars

-----------------------------------------------------------------------------
(* Properties of the user resource                                          *)

\* the statements of the last call that begin with the two words
StmtsOf(w1, w2) ==
    SelectSeq(last.stmts, LAMBDA t : Len(t) >= 2 /\ t[1] = W(w1) /\ t[2] = W(w2))

\* C1: after a successful Create, Read or Update that leaves a state, the
\* state's id equals its name, both are the name of the user that ClickHouse
\* returned, and the id is not the user's UUID
C1_IdIsTheUserName ==
    (last.op \in {"Create", "Read", "Update"} /\ ~last.err /\ state # NoState)
        => /\ state.id = state.name
           /\ last.val # Nil
           /\ state.id = last.val.Name
           /\ state.id \notin UserUUIDs
           /\ UserExists(db, state.id)
           /\ state.id # db.users[state.id].id

\* a Read has refreshed the state of the user john
C1_Witness ==
    /\ last.op = "Read" /\ ~last.err
    /\ state # NoState /\ state.id = "john" /\ state.name = "john"

\* C2: an Update that plans a name other than the one held in the state id,
\* for a user that exists and with no client call failing, runs an ALTER USER
\* that renames the user, reports no error and leaves id = name = the
\* planned name
C2_UpdateRenames ==
    (last.op = "Update" /\ last.fault = 0 /\ last.arg.existed
        /\ last.arg.name # last.arg.id)
        => /\ ~last.err
           /\ \E i \in DOMAIN StmtsOf("ALTER", "USER") :
                ClauseArg(StmtsOf("ALTER", "USER")[i], "RENAME", "TO") = last.arg.name
           /\ state # NoState
           /\ state.id = last.arg.name
           /\ state.name = last.arg.name

\* C5: a Create that runs CREATE USER for a plan that sets settings_profile
\* runs it with a SETTINGS PROFILE clause that names the profile, and for a
\* plan that sets default_role with a DEFAULT ROLE clause that names the role
C5_CreateAssignsProfileAndRole ==
    (last.op = "Create" /\ Len(StmtsOf("CREATE", "USER")) > 0)
        => /\ IsSet(last.arg.settings_profile)
                => ClauseArg(StmtsOf("CREATE", "USER")[1], "SETTINGS", "PROFILE")
                       = last.arg.settings_profile
           /\ IsSet(last.arg.default_role)
                => ClauseArg(StmtsOf("CREATE", "USER")[1], "DEFAULT", "ROLE")
                       = last.arg.default_role

\* C7: the state never holds the password hash: password_sha256_hash_wo is
\* null in every state of the resource and no attribute has the hash as its
\* value; a Create that runs CREATE USER for a configured hash identifies the
\* user by it
C7_HashIsWriteOnly ==
    /\ state # NoState
        => /\ state.password_sha256_hash_wo = NULL
           /\ \A a \in DOMAIN state : state[a] \notin Hashes
    /\ (last.op = "Create" /\ IsSet(last.arg.hash) /\ Len(StmtsOf("CREATE", "USER")) > 0)
        => ClauseArg(StmtsOf("CREATE", "USER")[1], IdentificationSHA256Hash, "BY")
               = last.arg.hash

\* a user identified by a configured hash was created and is in the state
C7_Witness ==
    /\ last.op = "Create" /\ ~last.err /\ last.arg.hash \in Hashes
    /\ Len(StmtsOf("CREATE", "USER")) = 1
    /\ state # NoState /\ state.password_sha256_hash_wo = NULL

-----------------------------------------------------------------------------
(* Properties of the user lookups                                           *)

\* C4: a lookup that finds the user returns as SettingsProfiles exactly the
\* non-null inherit_profile values of the user's rows, so HasSettingProfile(p)
\* holds exactly for the profiles p the user has
C4_LookupReturnsTheProfiles ==
    (last.op \in {"GetUser", "GetUserByUUID", "GetUserByName"}
        /\ ~last.err /\ last.val # Nil)
        => /\ Set(last.val.SettingsProfiles) = Set(db.users[last.val.Name].rows) \ {NULL}
           /\ \A p \in ProfileNames :
                HasSettingProfile(last.val, p) <=> p \in Set(db.users[last.val.Name].rows)

-----------------------------------------------------------------------------
(* Properties of ModifyPlan                                                 *)

\* exactly one of the two attributes is set in the configuration of the last
\* ModifyPlan
ExactlyOneSet ==
    IsSet(last.arg.cfg.ssl_certificate_cn) # IsSet(last.arg.cfg.password_sha256_hash_wo)

\* what ModifyPlan does when not exactly one is set, and for a destroy plan
ModifyPlanRest ==
    /\ (~last.arg.destroy /\ ~ExactlyOneSet)
        => /\ last.arg.attrErrors = {"ssl_certificate_cn", "password_sha256_hash_wo"}
           /\ last.calls = 0
    /\ last.arg.destroy
        => /\ ~last.err /\ last.arg.attrErrors = {} /\ ~last.arg.warning
           /\ last.calls = 0

\* C6 as stated: for a plan that is no destroy, ModifyPlan reports an error
\* exactly when not exactly one of the two attributes is set; then both
\* attributes get an attribute error and IsReplicatedStorage is not called; a
\* destroy plan does nothing
C6_ErrorIffNotExactlyOne ==
    last.op = "ModifyPlan"
        => /\ ~last.arg.destroy => (last.err <=> ~ExactlyOneSet)
           /\ ModifyPlanRest

\* C6 amended: for a plan that is no destroy, ModifyPlan reports an error
\* exactly when not exactly one of the two attributes is set, or exactly one
\* is set, the client is configured and IsReplicatedStorage fails; when not
\* exactly one is set both attributes get an attribute error and
\* IsReplicatedStorage is not called; a destroy plan does nothing
C6_ErrorIffNotExactlyOneOrStorageFails ==
    last.op = "ModifyPlan"
        => /\ ~last.arg.destroy
                => (last.err <=> \/ ~ExactlyOneSet
                                 \/ (last.arg.client /\ last.arg.repl = "err"))
           /\ ModifyPlanRest

\* exactly one attribute is set and IsReplicatedStorage has failed
C6_Witness ==
    /\ last.op = "ModifyPlan" /\ ~last.arg.destroy /\ ExactlyOneSet
    /\ last.arg.client /\ last.arg.repl = "err" /\ last.err /\ last.calls = 1

-----------------------------------------------------------------------------
(* Properties of the settings profile association                           *)

\* the profiles among the rows of the role, {} when there is no such role
ProfilesOfRole(roleId) ==
    IF RoleById(db, roleId) = Absent THEN {} ELSE Set(db.roles[roleId].rows) \ {NULL}

\* the profiles among the rows of the user that a name or a UUID refers to
ProfilesOfUser(ref) ==
    IF ref \in UserUUIDs
    THEN (IF NameOfUUID(db, ref) = "" THEN {}
          ELSE Set(db.users[NameOfUUID(db, ref)].rows) \ {NULL})
    ELSE (IF UserExists(db, ref) THEN Set(db.users[ref].rows) \ {NULL} ELSE {})

\* C3: with no client call failing, associating an existing profile with an
\* existing role returns no error and runs exactly one statement, an ALTER
\* ROLE that adds the profile, after which the role has it; disassociating
\* them returns no error and runs exactly one statement, an ALTER ROLE that
\* drops the profile, after which the role does not have it
C3_AssociateThenDisassociate ==
    /\ (last.op = "AssocCreate" /\ last.fault = 0
            /\ last.arg.plan.settings_profile_id = "sp-1"
            /\ ProfileName(db, "sp-1") = "p1"
            /\ last.arg.plan.role_id # NULL
            /\ RoleById(db, last.arg.plan.role_id) # Absent)
        => /\ ~last.err
           /\ Len(last.stmts) = 1
           /\ Len(StmtsOf("ALTER", "ROLE")) = 1
           /\ ClauseArg(last.stmts[1], "ADD", "PROFILE") = "p1"
           /\ "p1" \in ProfilesOfRole(last.arg.plan.role_id)
    /\ (last.op = "AssocDelete" /\ last.fault = 0
            /\ ProfileName(db, last.arg.st.settings_profile_id) = "p1"
            /\ last.arg.st.role_id # NULL
            /\ RoleById(db, last.arg.st.role_id) # Absent)
        => /\ ~last.err
           /\ Len(last.stmts) = 1
           /\ Len(StmtsOf("ALTER", "ROLE")) = 1
           /\ ClauseArg(last.stmts[1], "DROP", "PROFILES") = "p1"
           /\ "p1" \notin ProfilesOfRole(last.arg.st.role_id)

\* the state st refers to a profile that is gone, or to a role or a user that
\* is gone or does not have the profile, by the profile's name
NothingLeft(st) ==
    \/ ProfileName(db, st.settings_profile_id) = NULL
    \/ /\ st.role_id # NULL
       /\ \/ RoleById(db, st.role_id) = Absent
          \/ ProfileName(db, st.settings_profile_id) \notin ProfilesOfRole(st.role_id)
    \/ /\ st.role_id = NULL /\ st.user_id # NULL
       /\ \/ (st.user_id \in UserUUIDs /\ NameOfUUID(db, st.user_id) = "")
          \/ (st.user_id \notin UserUUIDs /\ ~UserExists(db, st.user_id))
          \/ ProfileName(db, st.settings_profile_id) \notin ProfilesOfUser(st.user_id)

\* C9: a Read of the association in which no lookup fails removes the
\* resource, without an error, exactly when the profile is not found, or the
\* role or user is not found, or the role or user does not have the profile;
\* otherwise the state stays as it was; a Read in which a lookup fails
\* reports the error and keeps the state
C9_ReadRemovesExactlyWhenGone ==
    last.op = "AssocRead"
        => /\ last.fault = 0
                => /\ ~last.err
                   /\ (assoc = NoState) <=> NothingLeft(last.arg.st)
           /\ last.fault # 0 => last.err
           /\ assoc # NoState => assoc = last.arg.st
           /\ last.err => assoc = last.arg.st
           /\ last.stmts = <<>>

\* Read has removed the association with a role that exists and does not have
\* the profile, which exists
C9_Witness ==
    /\ last.op = "AssocRead" /\ ~last.err /\ assoc = NoState
    /\ last.arg.st.role_id = "rid-1"
    /\ RoleById(db, "rid-1") # Absent
    /\ ProfileName(db, last.arg.st.settings_profile_id) = "p1"

\* C10: with no client call failing, a Delete of an association whose profile
\* is gone reports no error and runs no statement
C10_DeleteAfterProfileGone ==
    (last.op = "AssocDelete" /\ last.fault = 0
        /\ ProfileName(db, last.arg.st.settings_profile_id) = NULL)
        => /\ ~last.err
           /\ last.stmts = <<>>

-----------------------------------------------------------------------------
(* Role grants: GrantRole, GetGrantRole, RevokeGrantRole and the default    *)
(* roles of the grantee.  The functions are defined twice, in part_003 and  *)
(* in the second half of internal/dbops/settingsprofile.go; linked.grant    *)
(* tells which definition the build links.  A call runs one client call     *)
(* (Exec or Select) per step, so that calls of different resources          *)
(* interleave between their client calls.                                   *)
(*   db.grants       the rows of system.role_grants                         *)
(*   db.defaults[u]  default_roles_list of the user u in system.users       *)

GrantRoleNames == {"r1", "r2"}
GranteeRoleNames == {"admin"}
Procs == {1, 2}

\* GrantRole struct
GrantRows ==
    [RoleName : GrantRoleNames, GranteeUserName : OrNull({"john"}),
     GranteeRoleName : OrNull(GranteeRoleNames), AdminOption : BOOLEAN]

\* querybuilder.GrantRole(role, to).WithCluster(c).WithAdminOption(a).Build()
GrantRoleBuild(roleName, to, clusterName, adminOption) ==
    Words(<<"GRANT">>)
        \o (IF clusterName # NULL
            THEN Words(<<"ON", "CLUSTER">>) \o <<quote(clusterName)>> ELSE <<>>)
        \o <<backtick(roleName)>> \o Words(<<"TO">>) \o <<backtick(to)>>
        \o (IF adminOption THEN Words(<<"WITH", "ADMIN", "OPTION">>) ELSE <<>>)

\* querybuilder.RevokeRole(role, from).WithCluster(c).Build()
RevokeRoleBuild(roleName, from, clusterName) ==
    Words(<<"REVOKE">>)
        \o (IF clusterName # NULL
            THEN Words(<<"ON", "CLUSTER">>) \o <<quote(clusterName)>> ELSE <<>>)
        \o <<backtick(roleName)>> \o Words(<<"FROM">>) \o <<backtick(from)>>

\* ALTER USER `u` DEFAULT ROLE `r1`, `r2` [ON CLUSTER c]; part_003 writes NONE
\* for no roles, settingsprofile.go writes nothing
buildAlterUserDefaultRoleSQL(userName, roles, clusterName, def) ==
    Words(<<"ALTER", "USER">>) \o <<backtick(userName)>> \o Words(<<"DEFAULT", "ROLE">>)
        \o (IF Len(roles) = 0 /\ def = "part_003" THEN Words(<<"NONE">>)
            ELSE [i \in DOMAIN roles |-> backtick(roles[i])])
        \o (IF clusterName # NULL THEN Words(<<"ON", "CLUSTER", clusterName>>) ELSE <<>>)

\* the roles a DEFAULT ROLE clause names
RolesOfClause(tokens) ==
    LET Named(s) == [i \in DOMAIN s |-> s[i].s]
    IN  Named(SelectSeq(SubSeq(tokens, 6, Len(tokens)), LAMBDA k : k.q = "backtick"))

\* the row GRANT writes: a user of that name is the grantee, else a role
GrantRow(d, roleName, to, admin) ==
    [granted_role_name |-> roleName,
     user_name |-> IF UserExists(d, to) THEN to ELSE NULL,
     role_name |-> IF UserExists(d, to) THEN NULL ELSE to,
     with_admin_option |-> admin]

SameGrant(row, roleName, to) ==
    /\ row.granted_role_name = roleName
    /\ (row.user_name = to \/ row.role_name = to)

\* GRANT fails when the grantee is neither a user nor a role
ExecGrantRole(d, tokens) ==
    LET Run(roleName, to, admin) ==
            IF ~UserExists(d, to) /\ to \notin GranteeRoleNames THEN ExecErr(d)
            ELSE ExecOk([d EXCEPT !.grants =
                    {g \in @ : ~SameGrant(g, roleName, to)}
                        \cup {GrantRow(d, roleName, to, admin)}])
        Named(names) == Run(names[1].s, names[2].s, ClauseAt(tokens, "WITH", "ADMIN") # 0)
    IN  Named(SelectSeq(tokens, LAMBDA k : k.q = "backtick"))

ExecRevokeRole(d, tokens) ==
    LET Run(roleName, from) ==
            IF ~UserExists(d, from) /\ from \notin GranteeRoleNames THEN ExecErr(d)
            ELSE ExecOk([d EXCEPT !.grants = {g \in @ : ~SameGrant(g, roleName, from)}])
        Named(names) == Run(names[1].s, names[2].s)
    IN  Named(SelectSeq(tokens, LAMBDA k : k.q = "backtick"))

\* ALTER USER ... DEFAULT ROLE fails for a user that does not exist, for a
\* role that is not granted to the user, and for an empty list of roles
ExecAlterUserDefaultRole(d, tokens) ==
    LET Run(userName, roles) ==
            IF ~UserExists(d, userName) THEN ExecErr(d)
            ELSE IF roles = <<>> /\ ClauseAt(tokens, "ROLE", "NONE") = 0 THEN ExecErr(d)
            ELSE IF \E i \in DOMAIN roles :
                        ~\E g \in d.grants : /\ g.granted_role_name = roles[i]
                                             /\ g.user_name = userName
                 THEN ExecErr(d)
            ELSE ExecOk([d EXCEPT !.defaults[userName] = roles])
    IN  Run(tokens[3].s, RolesOfClause(tokens))

\* what getDefaultRoles makes of toString(default_roles_list): the names
\* between the commas, without the empty ones
ParseDefaultRoles(list) == SelectSeq(list, LAMBDA r : r # "")

\* the locals of a call of GrantRole or RevokeGrantRole: pc is the client
\* call it makes next, ran tells that its GRANT or REVOKE succeeded, failed
\* holds the client calls that returned an error
Idle ==
    [pc |-> "idle", op |-> "none", g |-> Nil, clusterName |-> NULL, roles |-> <<>>,
     err |-> FALSE, val |-> Nil, ran |-> FALSE, failed |-> {}, stmts |-> <<>>]

Called(op, g, clusterName) == [Idle EXCEPT !.op = op, !.g = g, !.clusterName = clusterName]

\* the call returns val and err
Returned(c, err, val) == [c EXCEPT !.pc = "done", !.err = err, !.val = val]

\* the client call named by c.pc returned an error
Failing(c) == [c EXCEPT !.failed = @ \cup {c.pc}]

Grantee(g) == IF g.GranteeUserName # NULL THEN g.GranteeUserName ELSE g.GranteeRoleName

\* one Exec of a call in flight
ExecGrantStmt(d, tokens, fail) ==
    IF fail THEN ExecErr(d)
    ELSE CASE tokens[1].s = "GRANT" -> ExecGrantRole(d, tokens)
           [] tokens[1].s = "REVOKE" -> ExecRevokeRole(d, tokens)
           [] OTHER -> ExecAlterUserDefaultRole(d, tokens)

\* GrantRole up to its GRANT (part_003:21-41, settingsprofile.go:411-431)
GrantRoleFrom(p, rows, clusters) ==
    /\ run[p].pc = "idle"
    /\ \E g \in rows, clusterName \in clusters, fail \in BOOLEAN :
         LET Ran(c, sql, e) ==
                 /\ db' = e.db
                 /\ run' = [run EXCEPT ![p] =
                       IF e.err THEN Returned(Failing([c EXCEPT !.pc = "GRANT"]), TRUE, Nil)
                       ELSE [c EXCEPT !.ran = TRUE, !.stmts = <<sql>>,
                                      !.pc = IF g.GranteeUserName # NULL
                                             THEN "getDefaultRoles" ELSE "GetGrantRole"]]
             Built(c, sql) == Ran(c, sql, ExecGrantStmt(db, sql, fail))
         IN  IF Grantee(g) = NULL
             THEN /\ ~fail
                  /\ db' = db
                  /\ run' = [run EXCEPT ![p] = Returned(Called("GrantRole", g, clusterName), TRUE, Nil)]
             ELSE Built(Called("GrantRole", g, clusterName),
                        GrantRoleBuild(g.RoleName, Grantee(g), clusterName, g.AdminOption))
    /\ UNCHANGED <<linked, state, assoc, last>>

GrantRole(p) == GrantRoleFrom(p, GrantRows, OrNull(ClusterNames))

\* RevokeGrantRole up to its REVOKE (part_003:119-138, settingsprofile.go:509-528);
\* only part_003 goes on to the default roles
RevokeGrantRole(p) ==
    /\ run[p].pc = "idle"
    /\ \E g \in GrantRows, clusterName \in OrNull(ClusterNames), fail \in BOOLEAN :
         LET Ran(c, sql, e) ==
                 /\ db' = e.db
                 /\ run' = [run EXCEPT ![p] =
                       IF e.err THEN Returned(Failing([c EXCEPT !.pc = "REVOKE"]), TRUE, Nil)
                       ELSE IF g.GranteeUserName # NULL /\ linked.grant = "part_003"
                       THEN [c EXCEPT !.ran = TRUE, !.stmts = <<sql>>, !.pc = "getDefaultRoles"]
                       ELSE Returned([c EXCEPT !.ran = TRUE, !.stmts = <<sql>>], FALSE, Nil)]
             Built(c, sql) == Ran(c, sql, ExecGrantStmt(db, sql, fail))
         IN  /\ ~g.AdminOption
             /\ IF Grantee(g) = NULL
                THEN /\ ~fail
                     /\ db' = db
                     /\ run' = [run EXCEPT ![p] =
                           Returned(Called("RevokeGrantRole", g, clusterName), TRUE, Nil)]
                ELSE Built(Called("RevokeGrantRole", g, clusterName),
                           RevokeRoleBuild(g.RoleName, Grantee(g), clusterName))
    /\ UNCHANGED <<linked, state, assoc, last>>

\* getDefaultRoles as called by activateDefaultRole and deactivateDefaultRole,
\* and what they do with its result up to their Exec
getDefaultRoles(p) ==
    /\ run[p].pc = "getDefaultRoles"
    /\ \E fail \in BOOLEAN :
         LET Activate(c, roles) ==
                 IF \E i \in DOMAIN roles : roles[i] = c.g.RoleName
                 THEN [c EXCEPT !.roles = roles, !.pc = "GetGrantRole"]
                 ELSE [c EXCEPT !.roles = Append(roles, c.g.RoleName),
                                !.pc = "activateDefaultRole"]
             Deactivate(c, roles) ==
                 IF \E i \in DOMAIN roles : roles[i] = c.g.RoleName
                 THEN [c EXCEPT !.roles = SelectSeq(roles, LAMBDA r : r # c.g.RoleName),
                                !.pc = "deactivateDefaultRole"]
                 ELSE Returned([c EXCEPT !.roles = roles], FALSE, Nil)
             Got(c, roles) ==
                 IF c.op = "GrantRole" THEN Activate(c, roles) ELSE Deactivate(c, roles)
             Failed(c) ==
                 IF c.op = "RevokeGrantRole" THEN Returned(Failing(c), FALSE, Nil)
                 ELSE IF linked.grant = "part_003" THEN [Failing(c) EXCEPT !.pc = "GetGrantRole"]
                 ELSE Returned(Failing(c), TRUE, Nil)
         IN  run' = [run EXCEPT ![p] =
                 IF fail THEN Failed(run[p])
                 ELSE Got(run[p],
                           IF UserExists(db, run[p].g.GranteeUserName)
                           THEN ParseDefaultRoles(db.defaults[run[p].g.GranteeUserName])
                           ELSE <<>>)]
    /\ UNCHANGED <<db, linked, state, assoc, last>>

\* the Exec of activateDefaultRole, and what GrantRole does with its error
activateDefaultRole(p) ==
    /\ run[p].pc = "activateDefaultRole"
    /\ \E fail \in BOOLEAN :
         LET Ran(c, sql, e) ==
                 /\ db' = e.db
                 /\ run' = [run EXCEPT ![p] =
                       IF ~e.err THEN [c EXCEPT !.stmts = Append(@, sql), !.pc = "GetGrantRole"]
                       ELSE IF linked.grant = "part_003"
                       THEN [Failing(c) EXCEPT !.pc = "GetGrantRole"]
                       ELSE Returned(Failing(c), TRUE, Nil)]
             Built(c, sql) == Ran(c, sql, ExecGrantStmt(db, sql, fail))
         IN  Built(run[p], buildAlterUserDefaultRoleSQL(run[p].g.GranteeUserName,
                               run[p].roles, run[p].clusterName, linked.grant))
    /\ UNCHANGED <<linked, state, assoc, last>>

\* the Exec of deactivateDefaultRole; RevokeGrantRole drops its error
deactivateDefaultRole(p) ==
    /\ run[p].pc = "deactivateDefaultRole"
    /\ \E fail \in BOOLEAN :
         LET Ran(c, sql, e) ==
                 /\ db' = e.db
                 /\ run' = [run EXCEPT ![p] =
                       IF ~e.err THEN Returned([c EXCEPT !.stmts = Append(@, sql)], FALSE, Nil)
                       ELSE Returned(Failing(c), FALSE, Nil)]
             Built(c, sql) == Ran(c, sql, ExecGrantStmt(db, sql, fail))
         IN  Built(run[p], buildAlterUserDefaultRoleSQL(run[p].g.GranteeUserName,
                               run[p].roles, run[p].clusterName, linked.grant))
    /\ UNCHANGED <<linked, state, assoc, last>>

\* the row of system.role_grants that GetGrantRole selects, as a GrantRole
GrantRoleOf(d, g) ==
    LET Found(rows) ==
            IF rows = {} THEN Nil
            ELSE LET row == CHOOSE r \in rows : TRUE
                 IN  [RoleName |-> row.granted_role_name, GranteeUserName |-> row.user_name,
                      GranteeRoleName |-> row.role_name, AdminOption |-> row.with_admin_option]
    IN  Found({r \in d.grants :
                 /\ r.granted_role_name = g.RoleName
                 /\ IF g.GranteeUserName # NULL THEN r.user_name = g.GranteeUserName
                    ELSE r.role_name = g.GranteeRoleName})

\* GetGrantRole as the last call of GrantRole
GetGrantRole(p) ==
    /\ run[p].pc = "GetGrantRole"
    /\ \E fail \in BOOLEAN :
         run' = [run EXCEPT ![p] =
             IF fail THEN Returned(Failing(run[p]), TRUE, Nil)
             ELSE Returned(run[p], FALSE, GrantRoleOf(db, run[p].g))]
    /\ UNCHANGED <<db, linked, state, assoc, last>>

\* the caller takes the result
Return(p) ==
    /\ run[p].pc = "done"
    /\ run' = [run EXCEPT ![p] = Idle]
    /\ UNCHANGED <<db, linked, state, assoc, last>>

\* john exists or not, with any grants and default roles among the grants
InitGrant ==
    /\ db \in {d \in [users : [UserNames -> {Absent, [id |-> "uuid-1", rows |-> <<>>]}],
                       profiles : {[i \in ProfileIds |-> NULL]},
                       roles : {[i \in RoleIds |-> Absent]},
                       grants : {{}},
                       defaults : {[n \in UserNames |-> <<>>]}] :
                d.users["jane"] = Absent}
    /\ linked \in [user : {"part_004"}, alterRole : {2},
                   grant : {"part_003", "settingsprofile.go"}]
    /\ state = NoState
    /\ assoc = NoState
    /\ last = InitLast
    /\ run = [p \in Procs |-> Idle]

\* one call at a time
NextGrant ==
    \/ GrantRole(1)
    \/ RevokeGrantRole(1)
    \/ getDefaultRoles(1)
    \/ activateDefaultRole(1)
    \/ deactivateDefaultRole(1)
    \/ GetGrantRole(1)
    \/ Return(1)

SpecGrant == InitGrant /\ [][NextGrant]_vars

-----------------------------------------------------------------------------
(* Properties of the role grants                                            *)

\* C11: a GrantRole whose GRANT succeeded and whose GetGrantRole did not fail
\* returns no error and the grant that GetGrantRole read, even when reading
\* or altering the default roles failed; a RevokeGrantRole whose REVOKE
\* succeeded returns no error, even when altering the default roles failed
C11_GrantSurvivesFailedActivation ==
    \A p \in Procs :
        run[p].pc = "done"
            => /\ (run[p].op = "GrantRole" /\ run[p].ran
                      /\ "GetGrantRole" \notin run[p].failed)
                    => /\ ~run[p].err
                       /\ run[p].val = GrantRoleOf(db, run[p].g)
               /\ (run[p].op = "RevokeGrantRole" /\ run[p].ran) => ~run[p].err

-----------------------------------------------------------------------------
(* Two grant resources of the same user, applied at the same time: each     *)
(* runs one GrantRole, and their client calls interleave                    *)

\* the grant of the p-th resource: the roles differ, the user is john
GrantOf(p) ==
    [RoleName |-> IF p = 1 THEN "r1" ELSE "r2", GranteeUserName |-> "john",
     GranteeRoleName |-> NULL, AdminOption |-> FALSE]

ConcurrentGrantRole(p) == GrantRoleFrom(p, {GrantOf(p)}, {NULL})

InitConcurrent ==
    /\ InitGrant
    /\ UserExists(db, "john")

NextConcurrent ==
    \E p \in Procs :
        \/ ConcurrentGrantRole(p)
        \/ getDefaultRoles(p)
        \/ activateDefaultRole(p)
        \/ GetGrantRole(p)

SpecConcurrent == InitConcurrent /\ [][NextConcurrent]_vars

\* C18: when the two GrantRole calls have returned without an error, no
\* client call of either having failed, both roles are among the default
\* roles of the user
C18_NoDefaultRoleLost ==
    (\A p \in Procs : run[p].pc = "done" /\ ~run[p].err /\ run[p].failed = {})
        => \A p \in Procs : \E i \in DOMAIN db.defaults["john"] :
               db.defaults["john"][i] = GrantOf(p).RoleName

-----------------------------------------------------------------------------
(* The builders of internal/querybuilder, called method by method.          *)
(* last.arg holds the builder q, its kind, and what the caller has set on a *)
(* CREATE USER builder; last.val holds the result of Build                  *)

BuilderNames == {"", "john"}

\* what the caller has set on a CREATE USER builder
NothingSet(name) ==
    [name |-> name, cluster |-> NULL, with |-> NULL, by |-> NULL, cn |-> NULL,
     profile |-> NULL, role |-> NULL]

Called1(op, kind, q, set) ==
    [op |-> op, err |-> FALSE, panic |-> FALSE, stmts |-> <<>>, calls |-> 0, fault |-> 0,
     val |-> Nil, arg |-> [kind |-> kind, q |-> q, set |-> set]]

InitBuilder ==
    /\ InitLookup
    /\ db.users["john"] = Absent
    /\ linked.user = "part_004"

CallNewCreateUser ==
    /\ \E name \in BuilderNames :
         last' = Called1("NewCreateUser", "CreateUser", NewCreateUser(name), NothingSet(name))
    /\ UNCHANGED <<run, db, linked, state, assoc>>

CallNewAlterUser ==
    /\ \E name \in BuilderNames :
         last' = Called1("NewAlterUser", "AlterUser", NewAlterUser(name), NothingSet(name))
    /\ UNCHANGED <<run, db, linked, state, assoc>>

CallNewAlterRole ==
    /\ \E name \in BuilderNames, def \in {1, 2} :
         /\ last' = Called1("NewAlterRole", "AlterRole", NewAlterRole(name), NothingSet(name))
         /\ linked' = [linked EXCEPT !.alterRole = def]
    /\ UNCHANGED <<run, db, state, assoc>>

IsBuilder(kinds) == last.op # "init" /\ last.arg.kind \in kinds

CallIdentified ==
    /\ IsBuilder({"CreateUser"})
    /\ \E by \in Hashes :
         last' = Called1("Identified", "CreateUser",
                         Identified(last.arg.q, IdentificationSHA256Hash, by),
                         [last.arg.set EXCEPT !.with = IdentificationSHA256Hash,
                                              !.by = by, !.cn = NULL])
    /\ UNCHANGED <<run, db, linked, state, assoc>>

CallIdentifiedWithSSLCertCN ==
    /\ IsBuilder({"CreateUser"})
    /\ \E cn \in CertCNs :
         last' = Called1("IdentifiedWithSSLCertCN", "CreateUser",
                         IdentifiedWithSSLCertCN(last.arg.q, cn),
                         [last.arg.set EXCEPT !.with = NULL, !.by = NULL, !.cn = cn])
    /\ UNCHANGED <<run, db, linked, state, assoc>>

CallWithDefaultRole ==
    /\ IsBuilder({"CreateUser"})
    /\ \E roleName \in OrNull(RoleNames) :
         last' = Called1("WithDefaultRole", "CreateUser",
                         WithDefaultRole(last.arg.q, roleName),
                         [last.arg.set EXCEPT !.role = roleName])
    /\ UNCHANGED <<run, db, linked, state, assoc>>

CallWithSettingsProfile ==
    /\ IsBuilder({"CreateUser"})
    /\ \E profileName \in OrNull(PlanProfiles) :
         last' = Called1("WithSettingsProfile", "CreateUser",
                         WithSettingsProfile(last.arg.q, profileName),
                         [last.arg.set EXCEPT !.profile = profileName])
    /\ UNCHANGED <<run, db, linked, state, assoc>>

CallWithCluster ==
    /\ IsBuilder({"CreateUser", "AlterUser", "AlterRole"})
    /\ \E clusterName \in OrNull(ClusterNames) :
         last' = Called1("WithCluster", last.arg.kind,
                         WithCluster(last.arg.q, clusterName),
                         [last.arg.set EXCEPT !.cluster = clusterName])
    /\ UNCHANGED <<run, db, linked, state, assoc>>

CallIfExists ==
    /\ IsBuilder({"AlterUser", "AlterRole"})
    /\ last' = Called1("IfExists", last.arg.kind, IfExists(last.arg.q), last.arg.set)
    /\ UNCHANGED <<run, db, linked, state, assoc>>

CallSetSettingsProfile ==
    /\ IsBuilder({"AlterUser", "AlterRole"})
    /\ \E profileName \in OrNull(PlanProfiles) :
         last' = Called1("SetSettingsProfile", last.arg.kind,
                         SetSettingsProfile(last.arg.q, profileName), last.arg.set)
    /\ UNCHANGED <<run, db, linked, state, assoc>>

CallRenameTo ==
    /\ IsBuilder({"AlterUser", "AlterRole"})
    /\ \E newName \in OrNull({"john", "jane"}) :
         last' = Called1("RenameTo", last.arg.kind, RenameTo(last.arg.q, newName),
                         last.arg.set)
    /\ UNCHANGED <<run, db, linked, state, assoc>>

CallDropSettingsProfile ==
    /\ IsBuilder({"AlterUser", "AlterRole"})
    /\ \E profileName \in OrNull(ProfileNames) :
         last' = Called1("DropSettingsProfile", last.arg.kind,
                         DropSettingsProfile(last.arg.q, profileName), last.arg.set)
    /\ UNCHANGED <<run, db, linked, state, assoc>>

CallAddSettingsProfile ==
    /\ IsBuilder({"AlterUser", "AlterRole"})
    /\ \E profileName \in OrNull(ProfileNames) :
         last' = Called1("AddSettingsProfile", last.arg.kind,
                         AddSettingsProfile(last.arg.q, profileName), last.arg.set)
    /\ UNCHANGED <<run, db, linked, state, assoc>>

BuildOf(kind, q, def) ==
    CASE kind = "CreateUser" -> CreateUserBuild(q)
      [] kind = "AlterUser" -> AlterUserBuild(q)
      [] OTHER -> AlterRoleBuild(q, def)

CallBuild ==
    /\ IsBuilder({"CreateUser", "AlterUser", "AlterRole"})
    /\ \E b \in {BuildOf(last.arg.kind, last.arg.q, linked.alterRole)} :
         last' = [Called1("Build", last.arg.kind, last.arg.q, last.arg.set)
                     EXCEPT !.err = b.err, !.val = b]
    /\ UNCHANGED <<run, db, linked, state, assoc>>

NextBuilder ==
    \/ CallNewCreateUser
    \/ CallNewAlterUser
    \/ CallNewAlterRole
    \/ CallIdentified
    \/ CallIdentifiedWithSSLCertCN
    \/ CallWithDefaultRole
    \/ CallWithSettingsProfile
    \/ CallWithCluster
    \/ CallIfExists
    \/ CallSetSettingsProfile
    \/ CallRenameTo
    \/ CallDropSettingsProfile
    \/ CallAddSettingsProfile
    \/ CallBuild

SpecBuilder == InitBuilder /\ [][NextBuilder]_vars

-----------------------------------------------------------------------------
(* Properties of the builders                                               *)

\* the statement the caller expects for what was set on a CREATE USER builder
ExpectedCreateUser(s) ==
    Words(<<"CREATE", "USER", "IF", "NOT", "EXISTS">>) \o <<backtick(s.name)>>
        \o (IF s.cluster = NULL THEN <<>>
            ELSE Words(<<"ON", "CLUSTER">>) \o <<quote(s.cluster)>>)
        \o (IF s.by # NULL
            THEN Words(<<"IDENTIFIED", "WITH", "sha256_hash", "BY">>) \o <<quote(s.by)>>
            ELSE IF s.cn # NULL
            THEN Words(<<"IDENTIFIED", "WITH", "ssl_certificate", "CN">>) \o <<quote(s.cn)>>
            ELSE <<>>)
        \o (IF s.profile = NULL THEN <<>>
            ELSE Words(<<"SETTINGS", "PROFILE">>) \o <<quote(s.profile)>>)
        \o (IF s.role = NULL THEN <<>>
            ELSE Words(<<"DEFAULT", "ROLE">>) \o <<quote(s.role)>>)

\* C12: Build of a CREATE USER builder with a non-empty name returns no error
\* and the statement CREATE USER IF NOT EXISTS name [ON CLUSTER] [IDENTIFIED]
\* [SETTINGS PROFILE] [DEFAULT ROLE], in that order, with exactly the clauses
\* that were set and the identification that was set last; with an empty name
\* it returns an error and no statement
C12_CreateUserStatement ==
    (last.op = "Build" /\ last.arg.kind = "CreateUser")
        => IF last.arg.set.name = ""
           THEN last.val.err /\ last.val.tokens = <<>>
           ELSE ~last.val.err /\ last.val.tokens = ExpectedCreateUser(last.arg.set)

\* a statement with all four optional clauses was built, the hash set after
\* the certificate
C12_Witness ==
    /\ last.op = "Build" /\ last.arg.kind = "CreateUser" /\ ~last.val.err
    /\ last.arg.set.cluster = "c1" /\ last.arg.set.by = "h1"
    /\ last.arg.set.profile = "p1" /\ last.arg.set.role = "r1"
    /\ Len(last.val.tokens) = 20

\* C13: in a statement built with a cluster name set, ON CLUSTER follows the
\* backtick-quoted object name at once
C13_OnClusterFollowsName ==
    (last.op = "Build" /\ ~last.val.err /\ last.arg.q.clusterName # NULL)
        => /\ NameAt(last.val.tokens) # 0
           /\ ClauseAt(last.val.tokens, "ON", "CLUSTER") = NameAt(last.val.tokens) + 1

-----------------------------------------------------------------------------
(* internal/querybuilder: WHERE clauses (part_005).  A value passed as      *)
(* interface{} is                                                           *)
(*   [k |-> "nil"]                          the untyped nil                 *)
(*   [k |-> b, v |-> x]                     a string, a string alias        *)
(*                                          (customString), a fmt.Stringer  *)
(*                                          with a value receiver           *)
(*                                          (customStringer), an int        *)
(*   [k |-> "ptr", base |-> b, depth |-> n, to |-> p]                       *)
(*                                          a pointer of type *...*b with n *)
(*                                          stars; p is NilPtr or the value *)
(*                                          it points to                    *)

MaxDepth == 2             \* stars of a pointer type
FieldNames == {"name", "age"}
Texts == {"mark", "value"}
NilPtr == [k |-> "nilptr"]
UntypedNil == [k |-> "nil"]

BaseValues ==
    [k : {"string", "alias", "stringer"}, v : Texts] \cup [k : {"int"}, v : {"3"}]

RECURSIVE PointersOf(_)
\* the pointers with n stars
PointersOf(n) ==
    IF n = 0 THEN {}
    ELSE LET Pointees(b) == IF n = 1 THEN {x \in BaseValues : x.k = b}
                            ELSE {x \in PointersOf(n - 1) : x.base = b}
         IN  UNION {[k : {"ptr"}, base : {b}, depth : {n}, to : {NilPtr} \cup Pointees(b)] :
                        b \in {"string", "alias", "stringer", "int"}}

Values == {UntypedNil} \cup BaseValues \cup UNION {PointersOf(n) : n \in 1..MaxDepth}

\* isNilValue without reflection: only the untyped nil
isNilValueUntyped(value) == value = UntypedNil

\* reflect.ValueOf(value).IsNil() for the kinds that have it
isNilValue(value) ==
    IF value = UntypedNil THEN TRUE
    ELSE IF value.k = "ptr" THEN value.to = NilPtr
    ELSE FALSE

Str(s, ok) == [str |-> s, ok |-> ok, panic |-> FALSE]
\* a value method called through a nil pointer
StrPanic == [str |-> "", ok |-> FALSE, panic |-> TRUE]

RECURSIVE stringValue(_)
stringValue(value) ==
    CASE value.k = "string" -> Str(value.v, TRUE)
      \* fmt.Stringer: customStringer, and *customStringer by its method set
      [] value.k = "stringer" -> Str(value.v, TRUE)
      [] value.k = "ptr" /\ value.base = "stringer" /\ value.depth = 1 ->
            IF value.to = NilPtr THEN StrPanic ELSE Str(value.to.v, TRUE)
      \* *string
      [] value.k = "ptr" /\ value.base = "string" /\ value.depth = 1 ->
            IF value.to = NilPtr THEN Str("", FALSE) ELSE Str(value.to.v, TRUE)
      \* reflect.Pointer
      [] value.k = "ptr" /\ ~(value.base \in {"string", "stringer"} /\ value.depth = 1) ->
            IF value.to = NilPtr THEN Str("", FALSE) ELSE stringValue(value.to)
      \* reflect.String
      [] value.k = "alias" -> Str(value.v, TRUE)
      [] OTHER -> Str("", FALSE)

\* fmt's %v: the digits of an int, the address of a pointer
Rendering(value) ==
    CASE value.k = "int" -> W(value.v)
      [] value.k = "ptr" -> IF value.to = NilPtr THEN W("<nil>") ELSE W("0xc000012345")
      [] value.k = "nil" -> W("<nil>")
      [] OTHER -> W(value.v)

WhereEquals(fieldName, value) == [field |-> fieldName, value |-> value, operator |-> "="]
WhereDiffers(fieldName, value) == [field |-> fieldName, value |-> value, operator |-> "<>"]
IsNull(fieldName) == [field |-> fieldName, value |-> UntypedNil, operator |-> ""]

\* simpleWhere.Clause: the words of the clause, or a panic
Clause(s) ==
    LET Lit(str) ==
            IF str.panic THEN [panic |-> TRUE, tokens |-> <<>>]
            ELSE IF str.ok
            THEN [panic |-> FALSE,
                  tokens |-> <<backtick(s.field), W(s.operator), quote(str.str)>>]
            ELSE [panic |-> FALSE,
                  tokens |-> <<backtick(s.field), W(s.operator), Rendering(s.value)>>]
    IN  IF isNilValue(s.value)
        THEN [panic |-> FALSE,
              tokens |-> <<backtick(s.field)>>
                            \o (IF s.operator = "<>" THEN Words(<<"IS", "NOT", "NULL">>)
                                ELSE Words(<<"IS", "NULL">>))]
        ELSE Lit(stringValue(s.value))

ClauseOf(op, s) ==
    [op |-> op, err |-> FALSE, panic |-> Clause(s).panic, stmts |-> <<>>, calls |-> 0,
     fault |-> 0, val |-> Clause(s).tokens, arg |-> s]

CallWhereEquals ==
    /\ \E f \in FieldNames, v \in Values : last' = ClauseOf("WhereEquals", WhereEquals(f, v))
    /\ UNCHANGED <<run, db, linked, state, assoc>>

CallWhereDiffers ==
    /\ \E f \in FieldNames, v \in Values : last' = ClauseOf("WhereDiffers", WhereDiffers(f, v))
    /\ UNCHANGED <<run, db, linked, state, assoc>>

CallIsNull ==
    /\ \E f \in FieldNames : last' = ClauseOf("IsNull", IsNull(f))
    /\ UNCHANGED <<run, db, linked, state, assoc>>

NextWhere == CallWhereEquals \/ CallWhereDiffers \/ CallIsNull

SpecWhere == InitBuilder /\ [][NextWhere]_vars

-----------------------------------------------------------------------------
(* Properties of the WHERE clauses                                          *)

IsWhere == last.op \in {"WhereEquals", "WhereDiffers", "IsNull"}

\* the value is the untyped nil or a nil pointer to a string, a string alias
\* or a Stringer
NilOrTypedNil(value) ==
    \/ value = UntypedNil
    \/ /\ value.k = "ptr" /\ value.depth = 1 /\ value.to = NilPtr
       /\ value.base \in {"string", "alias", "stringer"}

\* C14: for the untyped nil and for a typed nil pointer, the clause of
\* WhereEquals and of IsNull is the quoted field, IS NULL, the clause of
\* WhereDiffers is the quoted field, IS NOT NULL, and nothing else
C14_NilIsNull ==
    (IsWhere /\ NilOrTypedNil(last.arg.value))
        => /\ ~last.panic
           /\ last.op \in {"WhereEquals", "IsNull"}
                => last.val = <<backtick(last.arg.field), W("IS"), W("NULL")>>
           /\ last.op = "WhereDiffers"
                => last.val = <<backtick(last.arg.field), W("IS"), W("NOT"), W("NULL")>>

\* WhereDiffers was given a nil pointer to a Stringer
C14_Witness ==
    /\ last.op = "WhereDiffers" /\ last.arg.value.k = "ptr"
    /\ last.arg.value.base = "stringer" /\ last.arg.value.to = NilPtr
    /\ last.arg.value.depth = 1
    /\ Len(last.val) = 4

RECURSIVE TextOf(_)
\* the text of a string, a string alias, a Stringer, or of what a chain of
\* non-nil pointers leads to; NULL when the value is none of these
TextOf(value) ==
    CASE value.k \in {"string", "alias", "stringer"} -> value.v
      [] value.k = "ptr" /\ value.to # NilPtr -> TextOf(value.to)
      [] OTHER -> NULL

\* C15: for a value that is not nil, the clause is the quoted field, = for
\* WhereEquals and <> for WhereDiffers, and a literal: the quoted text when
\* the value is a string, a string alias, a Stringer or non-nil pointers to
\* one, else the unquoted rendering of the value
C15_ComparesWithLiteral ==
    (last.op \in {"WhereEquals", "WhereDiffers"} /\ ~isNilValue(last.arg.value))
        => /\ ~last.panic
           /\ Len(last.val) = 3
           /\ last.val[1] = backtick(last.arg.field)
           /\ last.val[2] = W(IF last.op = "WhereEquals" THEN "=" ELSE "<>")
           /\ last.val[3] = IF TextOf(last.arg.value) # NULL
                            THEN quote(TextOf(last.arg.value))
                            ELSE Rendering(last.arg.value)

-----------------------------------------------------------------------------
(* A failed client call of the user resource                                *)

\* the dbops.User that Create hands to CreateUser
CreateArg(plan, hash) ==
    [ID |-> "",
     Name |-> ValueString(plan.name),
     PasswordSha256Hash |-> ValueString(hash),
     SSLCertificateCN |-> ValueString(plan.ssl_certificate_cn),
     DefaultRole |-> IF IsSet(plan.default_role) THEN ValueString(plan.default_role) ELSE "",
     SettingsProfile |-> IF IsSet(plan.settings_profile)
                         THEN ValueString(plan.settings_profile) ELSE ""]

\* the dbops.User that Update hands to UpdateUser
UpdateArg(plan, st) ==
    [ID |-> ValueString(st.id),
     Name |-> ValueString(plan.name),
     SSLCertificateCN |-> ValueString(plan.ssl_certificate_cn)]

\* the one call of r.client that a handler of the user resource makes
ClientCall(op, plan, hash, st, d, f, src) ==
    LET cl == ValueStringPointer(IF op \in {"Create", "Update"}
                                 THEN plan.cluster_name ELSE st.cluster_name)
    IN  CASE op = "Create" ->
                IF src = "part_004" THEN CreateUser(d, CreateArg(plan, hash), cl, f)
                ELSE CreateUserV1(d, CreateArg(plan, hash), cl, f)
          [] op = "Read" -> GetUserByName(d, ValueString(st.id), f)
          [] op = "Update" ->
                IF src = "part_004" THEN UpdateUser(d, UpdateArg(plan, st), cl, f)
                ELSE UpdateUserV1(d, UpdateArg(plan, st), cl, f)
          [] op = "Delete" ->
                IF src = "part_004" THEN DeleteUser(d, ValueString(st.id), cl, f)
                ELSE DeleteUserV1(d, ValueString(st.id), cl, f)

\* the handler h, whose client call returned r, started from the state prior
FailedCallKeepsState(h, r, prior) ==
    (r.err /\ ~r.panic) =>
        /\ h.err
        /\ h.state = prior
        /\ h.r.calls = r.calls
        /\ h.r.stmts = r.stmts
        /\ h.r.db = r.db

\* C16: whenever the client call that Create, Read, Update or Delete of the
\* user resource makes returns an error, the handler reports an error, leaves
\* the state as it was (neither set nor removed) and makes no further call:
\* the calls, the statements and the database are those of the failed call.
C16_FailedCallKeepsState ==
    /\ \A f \in Faults :
         /\ state = NoState =>
              \A plan \in UserPlans, hash \in OrNull(Hashes) :
                 FailedCallKeepsState(
                     Create(plan, [password_sha256_hash_wo |-> hash], db, f, linked.user),
                     ClientCall("Create", plan, hash, state, db, f, linked.user), NoState)
         /\ state # NoState =>
              /\ FailedCallKeepsState(
                     Read(state, db, f),
                     ClientCall("Read", state, NULL, state, db, f, linked.user), state)
              /\ FailedCallKeepsState(
                     Delete(state, db, f, linked.user),
                     ClientCall("Delete", state, NULL, state, db, f, linked.user), state)
              /\ \A plan \in UserPlans :
                    FailedCallKeepsState(
                        Update(plan, state, db, f, linked.user),
                        ClientCall("Update", plan, NULL, state, db, f, linked.user), state)
    /\ (last.op = "Create" /\ last.err /\ ~last.panic) => state = NoState
    /\ (last.op = "Read" /\ last.err) => state = last.arg.st
    /\ (last.op \in {"Update", "Delete"} /\ last.err /\ ~last.panic) => state # NoState

\* DeleteUser failed at its DROP USER, after the user was found
C16_Witness ==
    /\ last.op = "Delete"
    /\ last.err /\ ~last.panic
    /\ last.fault = 2 /\ last.calls = 2
    /\ state # NoState
    /\ UserExists(db, ValueString(state.id))

-----------------------------------------------------------------------------
(* Read of a user whose profiles have changed since the state was written   *)

\* the states of john that an earlier run has stored
ReadStates ==
    [cluster_name : OrNull(ClusterNames),
     id : {"john"},
     name : {"john"},
     default_role : {NULL},
     settings_profile : OrNull(ProfileNames),
     password_sha256_hash_wo_version : OrNull(Versions),
     password_sha256_hash_wo : {NULL},
     ssl_certificate_cn : OrNull(CertCNs)]

InitRead ==
    /\ db \in {d \in [users : [UserNames -> {Absent} \cup [id : {"uuid-1"}, rows : Rows]],
                       profiles : {[i \in ProfileIds |->
                                      IF i = "sp-1" THEN "p1" ELSE "p2"]},
                       roles : {[i \in RoleIds |-> Absent]}] :
                /\ d.users["jane"] = Absent
                /\ Consistent(d)}
    /\ linked \in [user : {"part_004"}, alterRole : {2}]
    /\ state \in ReadStates
    /\ assoc = NoState
    /\ last = InitLast
    /\ run = NoRun

SpecRead == InitRead /\ [][UserRead]_vars

\* C19: Read reconciles settings_profile with the profiles reported for the
\* user: null when none is reported; kept when it is non-null and among the
\* reported ones; the first reported one when it is non-null and not among
\* them; and a null value stays null even when profiles are reported.
C19_ReadReconcilesProfile ==
    (last.op = "Read" /\ ~last.err /\ last.val # Nil) =>
        LET reported == last.val.SettingsProfiles
            was == last.arg.st.settings_profile
        IN  /\ state # NoState
            /\ state.settings_profile =
                   IF reported = <<>> THEN NULL
                   ELSE IF was = NULL THEN NULL
                   ELSE IF was \in Set(reported) THEN was
                   ELSE reported[1]

\* the state named p1, two profiles are reported and p1 is not among them
C19_Witness ==
    /\ last.op = "Read" /\ ~last.err /\ last.val # Nil
    /\ last.arg.st.settings_profile = "p1"
    /\ Len(last.val.SettingsProfiles) >= 1
    /\ "p1" \notin Set(last.val.SettingsProfiles)
    /\ state.settings_profile = "p2"

-----------------------------------------------------------------------------
(* Configure of the provider, as pkg/provider/provider_test.go drives it:   *)
(* the three client constructors are stubs that record their invocation     *)
(* and succeed                                                              *)

protocolNative == "native"
protocolHTTP == "http"
protocolHTTPS == "https"
authStrategyPassword == "password"
authStrategyBasicAuth == "basicauth"
MaxPort == 65535

Hosts == {"localhost"}
Ports == {9000, 8443, 70000}
TLSConfigs == {NULL, "verify", "insecure_skip_verify"}

\* Model of the tests: protocol, host, port, auth_config and tls_config
ProviderConfigs ==
    [Protocol : {protocolNative, protocolHTTP, protocolHTTPS},
     Host : Hosts,
     Port : Ports,
     Strategy : {authStrategyPassword, authStrategyBasicAuth},
     Username : {"", "user"},
     Password : {NULL, "secret"},
     TLSConfig : TLSConfigs]

\* the configurations the tests expect a diagnostic for
InvalidNativeStrategy(cfg) ==
    cfg.Protocol = protocolNative /\ cfg.Strategy # authStrategyPassword
InvalidAuthConfig(cfg) ==
    cfg.Strategy = authStrategyPassword /\ cfg.Username = "" /\ cfg.Password = NULL
InvalidHTTPPort(cfg) ==
    cfg.Protocol \in {protocolHTTP, protocolHTTPS} /\ ~(cfg.Port \in 1..MaxPort)
InvalidConfig(cfg) ==
    InvalidNativeStrategy(cfg) \/ InvalidAuthConfig(cfg) \/ InvalidHTTPPort(cfg)

\* the configurations of the shape the tests expect to be accepted
ValidConfig(cfg) ==
    /\ cfg.Port \in 1..MaxPort
    /\ cfg.Username # "" /\ cfg.Password # NULL
    /\ cfg.Strategy = IF cfg.Protocol = protocolNative
                      THEN authStrategyPassword ELSE authStrategyBasicAuth

Configured(err, invoked, data) ==
    [err |-> err, invoked |-> invoked, ResourceData |-> data, DataSourceData |-> data]

\* Configure as it would be if it built the client before it validated
ConfigureBuildsFirst(cfg, strict) ==
    LET ctor == IF cfg.Protocol = protocolNative THEN "newNativeClientFunc"
                ELSE "newHTTPClientFunc"
    IN  IF InvalidConfig(cfg) THEN Configured(TRUE, <<ctor>>, NULL)
        ELSE IF ~ValidConfig(cfg) /\ strict THEN Configured(TRUE, <<>>, NULL)
        ELSE Configured(FALSE, <<ctor, "newDBOpsClientFunc">>, "dbops.Client")

\* Provider.Configure: the constructors it invokes, in order, and the data of
\* the response. strict says how it decides a configuration that the tests
\* neither accept nor refuse
Configure(cfg, strict) ==
    LET ctor == IF cfg.Protocol = protocolNative THEN "newNativeClientFunc"
                ELSE "newHTTPClientFunc"
    IN  IF InvalidConfig(cfg) THEN Configured(TRUE, <<>>, NULL)
        ELSE IF ~ValidConfig(cfg) /\ strict THEN Configured(TRUE, <<>>, NULL)
        ELSE Configured(FALSE, <<ctor, "newDBOpsClientFunc">>, "dbops.Client")

CallConfigure ==
    /\ \E cfg \in ProviderConfigs, strict \in BOOLEAN :
         \E c \in {Configure(cfg, strict)} :
             last' = [op |-> "Configure", err |-> c.err, panic |-> FALSE, stmts |-> <<>>,
                      calls |-> Len(c.invoked), fault |-> 0,
                      val |-> [ResourceData |-> c.ResourceData,
                               DataSourceData |-> c.DataSourceData],
                      arg |-> [cfg |-> cfg, invoked |-> c.invoked]]
    /\ UNCHANGED <<run, db, linked, state, assoc>>

SpecProvider == InitBuilder /\ [][CallConfigure]_vars

====
